---------------------------- MODULE Spec2Model ----------------------------
(***************************************************************************)
(* Model of ai_engine/score_stock.py: the metric classes, DrovalixScorer   *)
(* (get_rating, score_stock, score_batch) and the thread-pool fan-out of   *)
(* score_batch.                                                            *)
(*                                                                         *)
(* Attribute values are tagged records, because a Python dict can hold a   *)
(* number, a string, None or a nested dict under any key:                  *)
(*   t = "num"    a number, v is its value as an integer in the unit of    *)
(*                the field (see FieldUnit comments at each metric)        *)
(*   t = "str"    a string, s                                              *)
(*   t = "none"   None (a key present with a null value)                   *)
(*   t = "absent" the key is not in the dict                               *)
(*   t = "dict"   a nested dict (esgScores): s tells what it holds under   *)
(*                'totalEsg' ("empty" dict, "nokey", "none", "num", "str") *)
(*                and v is the number when s = "num"                       *)
(* Ratio fields are in hundredths (0.21 is 21), money fields in units of   *)
(* 1e9, volumes in units of 100000, years and counts in units.             *)
(* A reason is the f-string's template; the formatted number is left out.  *)
(***************************************************************************)
EXTENDS Integers, Sequences, FiniteSets, TLC

VARIABLES
    \* ---- score_batch (one call) ----
    tickers,      \* the tickers argument, a sequence of strings
    parallel,     \* the parallel argument
    max_workers,  \* the max_workers argument
    pc,           \* where the score_batch call is
    task,         \* task[i]: state of the future submitted for tickers[i]
    fetches,      \* fetches[i]: what stock.info did in the call for tickers[i]
    outcome,      \* outcome[i]: what the score_stock call for tickers[i] returned
    results,      \* the results list, in the order the main thread appended
    returned,     \* the list score_batch returned
    stall,        \* index of the ticker whose fetch never returns, 0 for none
    \* ---- one score_stock / metric.score call on a drawn attribute map ----
    info,         \* the attribute map (a dict), as the provider returned it
    hist,         \* what yf.Ticker(symbol).history(period="1y") does
    supplied,     \* whether the caller of score_stock passes info itself
    fetch,        \* what stock.info does: "dict", "none" or "raise"
    mres,         \* mres[m]: what metric m's score(info) did, once called
    result,       \* what score_stock returned, once called
    info_at_call, \* the attribute map as it was when score_stock was called
    \* ---- the DrovalixScorer object and one get_rating call ----
    registry,     \* self.metrics
    self_max_score, \* self.max_score
    rated,        \* the score argument of get_rating
    rating,       \* what get_rating returned, once called
    \* ---- main() ----
    args,         \* the parsed command line
    file,         \* the ticker file args.file names
    cli_pc,       \* where main is
    cli_tickers,  \* main's tickers list
    written       \* what save_results wrote: the path and the format

vars == <<tickers, parallel, max_workers, pc, task, fetches, outcome, results,
          returned, stall,
          info, hist, supplied, fetch, mres, result, info_at_call,
          registry, self_max_score, rated, rating,
          args, file, cli_pc, cli_tickers, written>>

scorerVars == <<registry, self_max_score, rated, rating>>

cliVars == <<args, file, cli_pc, cli_tickers, written>>

-----------------------------------------------------------------------------
(* Attribute values *)

None == [t |-> "none", v |-> 0, s |-> ""]

Absent == [t |-> "absent", v |-> 0, s |-> ""]

Num(n) == [t |-> "num", v |-> n, s |-> ""]

Str(x) == [t |-> "str", v |-> 0, s |-> x]

Dict(kind, n) == [t |-> "dict", v |-> n, s |-> kind]

IsNum(x) == x.t = "num"

\* dict.get(key): None when the key is absent
Get(d, k) == IF d[k].t = "absent" THEN None ELSE d[k]

\* dict.get(key, 0): 0 when the key is absent, None when it holds None
GetOr0(d, k) == IF d[k].t = "absent" THEN Num(0) ELSE d[k]

\* Python truthiness of a value: None, 0, "" and {} are false
Truthy(x) ==
    CASE x.t = "none" -> FALSE
      [] x.t = "absent" -> FALSE
      [] x.t = "num" -> x.v # 0
      [] x.t = "str" -> x.s # ""
      [] x.t = "dict" -> x.s # "empty"

\* what a metric's score() does: it returns (points, reasons) or raises exc
Ret(p, r) == [raised |-> FALSE, exc |-> "", points |-> p, reasons |-> <<r>>]

Raise(e) == [raised |-> TRUE, exc |-> e, points |-> 0, reasons |-> <<>>]

\* x * 100 in binary floating point, for x = k/100: the product is k, one ulp
\* above k or one ulp below k.  The result is in tenths of an ulp-free unit:
\* 10*k, 10*k+1 or 10*k-1, so that "pct > T" is Times100(k) > 10*T.
FloatAbove == {-58, -57, -29, 7, 14, 28, 55, 56, 109, 110, 111, 112}

FloatBelow == {-56, -55, -28, -14, -7, 29, 57, 58, 113, 114, 115, 116}

Times100(k) ==
    IF k \in FloatAbove THEN 10 * k + 1
    ELSE IF k \in FloatBelow THEN 10 * k - 1
    ELSE 10 * k

-----------------------------------------------------------------------------
(* Metric implementations.  Each operator is the score() of the class. *)

\* Mutant of ROEMetric_score: the thresholds are compared with >=
ROEMetric_score_inclusive(d) ==
    LET roe == Get(d, "returnOnEquity") IN
    IF roe.t # "none" THEN
        IF ~IsNum(roe) THEN Raise("TypeError")
        ELSE IF roe.v >= 20 THEN Ret(20, "Outstanding ROE of {roe:.2f} (>20%)")
        ELSE IF roe.v >= 15 THEN Ret(15, "Strong ROE of {roe:.2f} (>15%)")
        ELSE IF roe.v >= 10 THEN Ret(10, "Moderate ROE of {roe:.2f} (>10%)")
        ELSE Ret(0, "Low ROE of {roe:.2f} (<=10%)")
    ELSE Ret(0, "ROE data not available")

\* returnOnEquity in hundredths
ROEMetric_score(d) ==
    LET roe == Get(d, "returnOnEquity") IN
    IF roe.t # "none" THEN
        IF ~IsNum(roe) THEN Raise("TypeError")
        ELSE IF roe.v > 20 THEN Ret(20, "Outstanding ROE of {roe:.2f} (>20%)")
        ELSE IF roe.v > 15 THEN Ret(15, "Strong ROE of {roe:.2f} (>15%)")
        ELSE IF roe.v > 10 THEN Ret(10, "Moderate ROE of {roe:.2f} (>10%)")
        ELSE Ret(0, "Low ROE of {roe:.2f} (<=10%)")
    ELSE Ret(0, "ROE data not available")

\* returnOnAssets in hundredths
ReturnOnAssetsMetric_score(d) ==
    LET roa == Get(d, "returnOnAssets") IN
    IF roa.t # "none" THEN
        IF ~IsNum(roa) THEN Raise("TypeError")
        ELSE IF roa.v > 10 THEN Ret(3, "Excellent ROA: {roa*100:.2f}% (>10%)")
        ELSE IF roa.v > 5 THEN Ret(2, "Good ROA: {roa*100:.2f}% (>5%)")
        ELSE IF roa.v > 0 THEN Ret(1, "Positive ROA: {roa*100:.2f}%")
        ELSE Ret(0, "Negative or zero ROA: {roa*100:.2f}%")
    ELSE Ret(0, "ROA data not available")

\* returnOnInvestedCapital in hundredths
ROICMetric_score(d) ==
    LET roic == Get(d, "returnOnInvestedCapital") IN
    IF roic.t # "none" THEN
        IF ~IsNum(roic) THEN Raise("TypeError")
        ELSE IF roic.v > 15 THEN Ret(4, "Outstanding ROIC: {roic*100:.2f}% (>15%)")
        ELSE IF roic.v > 10 THEN Ret(2, "Good ROIC: {roic*100:.2f}% (>10%)")
        ELSE IF roic.v > 0 THEN Ret(1, "Positive ROIC: {roic*100:.2f}%")
        ELSE Ret(0, "Negative or zero ROIC: {roic*100:.2f}%")
    ELSE Ret(0, "ROIC data not available")

\* Mutant of DebtToEquityMetric_score: the best tier awards 20 points, more
\* than the metric's max_points of 15
DebtToEquityMetric_score_over(d) ==
    LET dte == Get(d, "debtToEquity") IN
    IF dte.t # "none" THEN
        IF ~IsNum(dte) THEN Raise("TypeError")
        ELSE IF dte.v < 50 THEN Ret(20, "Excellent D/E: {dte:.2f} (<0.5)")
        ELSE IF dte.v < 100 THEN Ret(10, "Healthy D/E: {dte:.2f} (<1)")
        ELSE IF dte.v < 200 THEN Ret(5, "Acceptable D/E: {dte:.2f} (<2)")
        ELSE Ret(0, "High D/E: {dte:.2f} (>=2)")
    ELSE Ret(0, "Debt/Equity data not available")

\* debtToEquity in hundredths
DebtToEquityMetric_score(d) ==
    LET dte == Get(d, "debtToEquity") IN
    IF dte.t # "none" THEN
        IF ~IsNum(dte) THEN Raise("TypeError")
        ELSE IF dte.v < 50 THEN Ret(15, "Excellent D/E: {dte:.2f} (<0.5)")
        ELSE IF dte.v < 100 THEN Ret(10, "Healthy D/E: {dte:.2f} (<1)")
        ELSE IF dte.v < 200 THEN Ret(5, "Acceptable D/E: {dte:.2f} (<2)")
        ELSE Ret(0, "High D/E: {dte:.2f} (>=2)")
    ELSE Ret(0, "Debt/Equity data not available")

\* currentRatio in hundredths
CurrentRatioMetric_score(d) ==
    LET cr == Get(d, "currentRatio") IN
    IF cr.t # "none" THEN
        IF ~IsNum(cr) THEN Raise("TypeError")
        ELSE IF cr.v > 200 THEN Ret(7, "Very strong current ratio {cr:.2f} (>2)")
        ELSE IF cr.v > 150 THEN Ret(5, "Good current ratio {cr:.2f} (>1.5)")
        ELSE IF cr.v > 100 THEN Ret(3, "Acceptable current ratio {cr:.2f} (>1)")
        ELSE Ret(0, "Low current ratio {cr:.2f} (<=1)")
    ELSE Ret(0, "Current ratio data not available")

\* quickRatio in hundredths
QuickRatioMetric_score(d) ==
    LET qr == Get(d, "quickRatio") IN
    IF qr.t # "none" THEN
        IF ~IsNum(qr) THEN Raise("TypeError")
        ELSE IF qr.v > 150 THEN Ret(6, "Excellent quick ratio {qr:.2f} (>1.5)")
        ELSE IF qr.v > 100 THEN Ret(4, "Good quick ratio {qr:.2f} (>1.0)")
        ELSE IF qr.v > 70 THEN Ret(2, "Acceptable quick ratio {qr:.2f} (>0.7)")
        ELSE Ret(0, "Weak quick ratio {qr:.2f} (<=0.7)")
    ELSE Ret(0, "Quick ratio data not available")

Abs(n) == IF n < 0 THEN -n ELSE n

\* ebit and interestExpense in units of 1e9; coverage = ebit / abs(interest_exp),
\* and coverage > c is ebit > c * abs(interest_exp) since the divisor is positive
InterestCoverageMetric_score(d) ==
    LET ebit == Get(d, "ebit")
        interest_exp == Get(d, "interestExpense")
    IN
    IF ebit.t # "none" /\ interest_exp.t # "none"
       /\ ~(IsNum(interest_exp) /\ interest_exp.v = 0)
    THEN
        \* abs() of a str or a dict, or the division by one, is a TypeError
        IF ~IsNum(interest_exp) \/ ~IsNum(ebit) THEN Raise("TypeError")
        ELSE IF ebit.v > 8 * Abs(interest_exp.v)
             THEN Ret(3, "Excellent Interest Coverage: {coverage:.1f}x (>8x)")
        ELSE IF ebit.v > 4 * Abs(interest_exp.v)
             THEN Ret(2, "Good Interest Coverage: {coverage:.1f}x (>4x)")
        ELSE IF ebit.v > 2 * Abs(interest_exp.v)
             THEN Ret(1, "Acceptable Interest Coverage: {coverage:.1f}x (>2x)")
        ELSE Ret(0, "Low Interest Coverage: {coverage:.1f}x (<=2x)")
    ELSE Ret(0, "Insufficient data for interest coverage")

\* profitMargins in hundredths; pm_percent = pm * 100
ProfitMarginMetric_score(d) ==
    LET pm == Get(d, "profitMargins") IN
    IF pm.t # "none" THEN
        \* str * 100 repeats the string and the comparison with 20 then raises
        IF ~IsNum(pm) THEN Raise("TypeError")
        ELSE IF Times100(pm.v) > 200
             THEN Ret(12, "Excellent profit margin {pm_percent:.2f}% (>20%)")
        ELSE IF Times100(pm.v) > 100
             THEN Ret(8, "Good profit margin {pm_percent:.2f}% (>10%)")
        ELSE IF Times100(pm.v) > 50
             THEN Ret(4, "Thin profit margin {pm_percent:.2f}% (>5%)")
        ELSE Ret(0, "Very thin profit margin {pm_percent:.2f}% (<=5%)")
    ELSE Ret(0, "Profit margin data not available")

\* operatingMargins in hundredths
OperatingMarginMetric_score(d) ==
    LET opm == Get(d, "operatingMargins") IN
    IF opm.t # "none" THEN
        IF ~IsNum(opm) THEN Raise("TypeError")
        ELSE IF Times100(opm.v) > 200
             THEN Ret(10, "Strong operating margin {opm_percent:.2f}% (>20%)")
        ELSE IF Times100(opm.v) > 100
             THEN Ret(6, "Good operating margin {opm_percent:.2f}% (>10%)")
        ELSE Ret(0, "Weak operating margin {opm_percent:.2f}% (<=10%)")
    ELSE Ret(0, "Operating margin data not available")

\* freeCashflow in units of 1e9
FreeCashFlowMetric_score(d) ==
    LET fcf == Get(d, "freeCashflow") IN
    IF fcf.t # "none" THEN
        IF ~IsNum(fcf) THEN Raise("TypeError")
        ELSE IF fcf.v > 0 THEN Ret(10, "Positive Free Cash Flow")
        ELSE Ret(0, "Negative Free Cash Flow")
    ELSE Ret(0, "Free Cash Flow data not available")

\* marketCap and freeCashflow in units of 1e9; pfcf = mcap / fcf with fcf > 0,
\* so pfcf < c is mcap < c * fcf.  This is the second class of that name (the
\* one in force when DrovalixScorer is constructed); the first has the same body.
PriceToFreeCashFlowMetric_score(d) ==
    LET mcap == Get(d, "marketCap")
        fcf == Get(d, "freeCashflow")
    IN
    IF ~(Truthy(mcap) /\ Truthy(fcf)) THEN Ret(0, "Not enough data for P/FCF")
    \* `fcf > 0` on a truthy non-number raises
    ELSE IF ~IsNum(fcf) THEN Raise("TypeError")
    ELSE IF ~(fcf.v > 0) THEN Ret(0, "Not enough data for P/FCF")
    ELSE IF ~IsNum(mcap) THEN Raise("TypeError")
    ELSE IF mcap.v < 10 * fcf.v THEN Ret(3, "Very attractive P/FCF: {pfcf:.2f} (<10)")
    ELSE IF mcap.v < 15 * fcf.v THEN Ret(2, "Attractive P/FCF: {pfcf:.2f} (<15)")
    ELSE Ret(0, "High P/FCF: {pfcf:.2f} (>=15)")


\* revenueGrowth in hundredths; pct = rev_growth * 100
RevenueGrowthMetric_score(d) ==
    LET rev_growth == Get(d, "revenueGrowth") IN
    IF rev_growth.t # "none" THEN
        IF ~IsNum(rev_growth) THEN Raise("TypeError")
        ELSE IF Times100(rev_growth.v) > 200
             THEN Ret(10, "Exceptional revenue growth {pct:.2f}% (>20%)")
        ELSE IF Times100(rev_growth.v) > 100
             THEN Ret(7, "Strong revenue growth {pct:.2f}% (>10%)")
        ELSE IF Times100(rev_growth.v) > 0
             THEN Ret(4, "Positive revenue growth {pct:.2f}%")
        ELSE Ret(0, "Negative revenue growth {pct:.2f}%")
    ELSE Ret(0, "Revenue growth data not available")

\* fiveYearAvgRevenueGrowth in hundredths; rev5y_pct = rev5y * 100
FiveYearRevenueGrowthMetric_score(d) ==
    LET rev5y == Get(d, "fiveYearAvgRevenueGrowth") IN
    IF rev5y.t # "none" THEN
        IF ~IsNum(rev5y) THEN Raise("TypeError")
        ELSE IF Times100(rev5y.v) > 150
             THEN Ret(5, "Outstanding 5-year revenue CAGR: {rev5y_pct:.2f}% (>15%)")
        ELSE IF Times100(rev5y.v) > 70
             THEN Ret(3, "Good 5-year revenue CAGR: {rev5y_pct:.2f}% (>7%)")
        ELSE IF Times100(rev5y.v) > 0
             THEN Ret(1, "Positive 5-year revenue CAGR: {rev5y_pct:.2f}%")
        ELSE Ret(0, "Negative 5-year revenue CAGR: {rev5y_pct:.2f}%")
    ELSE Ret(0, "5-year revenue growth data not available")

\* earningsQuarterlyGrowth in hundredths; pct = eps_growth * 100
EPSGrowthMetric_score(d) ==
    LET eps_growth == Get(d, "earningsQuarterlyGrowth") IN
    IF eps_growth.t # "none" THEN
        IF ~IsNum(eps_growth) THEN Raise("TypeError")
        ELSE IF Times100(eps_growth.v) > 150
             THEN Ret(8, "Excellent EPS growth {pct:.2f}% (>15%)")
        ELSE IF Times100(eps_growth.v) > 50
             THEN Ret(4, "Positive EPS growth {pct:.2f}%")
        ELSE Ret(0, "Minimal EPS growth {pct:.2f}% (<=5%)")
    ELSE Ret(0, "EPS growth data not available")

\* dividendGrowth in years
DividendGrowthMetric_score(d) ==
    LET dg == Get(d, "dividendGrowth") IN
    IF dg.t # "none" THEN
        IF ~IsNum(dg) THEN Raise("TypeError")
        ELSE IF dg.v >= 5 THEN Ret(4, "{dg} years of dividend growth (>=5y)")
        ELSE IF dg.v >= 3 THEN Ret(2, "{dg} years of dividend growth (>=3y)")
        ELSE Ret(0, "Dividend growth streak: {dg} years (<3y)")
    ELSE Ret(0, "Dividend growth data not available")

\* trailingPE in hundredths
PERatioMetric_score(d) ==
    LET pe == Get(d, "trailingPE") IN
    IF pe.t = "none" THEN Ret(0, "P/E ratio data not available or negative")
    ELSE IF ~IsNum(pe) THEN Raise("TypeError")
    ELSE IF ~(pe.v > 0) THEN Ret(0, "P/E ratio data not available or negative")
    ELSE IF pe.v < 1500 THEN Ret(5, "Low P/E: {pe:.2f} (<15)")
    ELSE IF pe.v < 2500 THEN Ret(3, "Reasonable P/E: {pe:.2f} (<25)")
    ELSE Ret(0, "High P/E: {pe:.2f} (>=25)")

\* pegRatio in hundredths
PEGMetric_score(d) ==
    LET peg == Get(d, "pegRatio") IN
    IF peg.t = "none" THEN Ret(0, "PEG ratio data not available or N/A")
    ELSE IF ~IsNum(peg) THEN Raise("TypeError")
    ELSE IF ~(peg.v > 0) THEN Ret(0, "PEG ratio data not available or N/A")
    ELSE IF peg.v < 100 THEN Ret(3, "Low PEG: {peg:.2f} (<1, undervalued)")
    ELSE IF peg.v < 200 THEN Ret(1, "Reasonable PEG: {peg:.2f} (<2)")
    ELSE Ret(0, "High PEG: {peg:.2f} (>=2)")

\* priceToBook in hundredths
PBMetric_score(d) ==
    LET pb == Get(d, "priceToBook") IN
    IF pb.t = "none" THEN Ret(0, "P/B ratio data not available or negative")
    ELSE IF ~IsNum(pb) THEN Raise("TypeError")
    ELSE IF ~(pb.v > 0) THEN Ret(0, "P/B ratio data not available or negative")
    ELSE IF pb.v < 200 THEN Ret(5, "Low P/B: {pb:.2f} (<2)")
    ELSE IF pb.v < 400 THEN Ret(2, "Reasonable P/B: {pb:.2f} (<4)")
    ELSE Ret(0, "High P/B: {pb:.2f} (>=4)")

\* priceToSalesTrailing12Months in hundredths
PriceToSalesMetric_score(d) ==
    LET ps == Get(d, "priceToSalesTrailing12Months") IN
    IF ps.t = "none" THEN Ret(0, "P/S ratio data not available or N/A")
    ELSE IF ~IsNum(ps) THEN Raise("TypeError")
    ELSE IF ~(ps.v > 0) THEN Ret(0, "P/S ratio data not available or N/A")
    ELSE IF ps.v < 200 THEN Ret(4, "Low P/S: {ps:.2f} (<2)")
    ELSE IF ps.v < 400 THEN Ret(2, "Reasonable P/S: {ps:.2f} (<4)")
    ELSE Ret(0, "High P/S: {ps:.2f} (>=4)")

\* trailingEps, bookValue and currentPrice in currency units.
\* graham = (22.5 * eps * bvps) ** 0.5: a negative base with the float exponent
\* 0.5 gives a complex number in Python 3, and `price < graham` then raises
\* TypeError, which score() does not catch.  With a positive radicand,
\* price < graham is price < 0 or 2 * price^2 < 45 * eps * bvps.
GrahamNumberMetric_score(d) ==
    LET eps == Get(d, "trailingEps")
        bvps == Get(d, "bookValue")
        price == Get(d, "currentPrice")
    IN
    IF Truthy(eps) /\ Truthy(bvps) /\ Truthy(price) THEN
        IF ~IsNum(eps) \/ ~IsNum(bvps) \/ ~IsNum(price) THEN Raise("TypeError")
        ELSE IF eps.v * bvps.v < 0 THEN Raise("TypeError")
        ELSE IF price.v < 0 \/ 2 * price.v * price.v < 45 * eps.v * bvps.v
             THEN Ret(4, "Trading below Graham Number (undervalued)")
        ELSE Ret(0, "Trading above Graham Number (not undervalued)")
    ELSE Ret(0, "Not enough data for Graham Number")

\* dividendYield in hundredths; pct = div_yield * 100
DividendMetric_score(d) ==
    LET div_yield == Get(d, "dividendYield") IN
    IF div_yield.t # "none" THEN
        IF ~IsNum(div_yield) THEN Raise("TypeError")
        ELSE IF Times100(div_yield.v) > 30
             THEN Ret(5, "Attractive dividend yield {pct:.2f}% (>3%)")
        ELSE IF Times100(div_yield.v) > 10
             THEN Ret(2, "Modest dividend yield {pct:.2f}%")
        ELSE Ret(0, "Low dividend yield {pct:.2f}% (<=1%)")
    ELSE Ret(0, "Dividend yield data not available")

\* payoutRatio in hundredths
PayoutRatioMetric_score(d) ==
    LET payout == Get(d, "payoutRatio") IN
    IF payout.t = "none" THEN Ret(0, "Payout ratio data not available or N/A")
    ELSE IF ~IsNum(payout) THEN Raise("TypeError")
    ELSE IF ~(payout.v > 0) THEN Ret(0, "Payout ratio data not available or N/A")
    ELSE IF payout.v < 40 THEN Ret(3, "Conservative payout ratio: {payout_pct:.1f}% (<40%)")
    ELSE IF payout.v < 60 THEN Ret(2, "Manageable payout ratio: {payout_pct:.1f}% (<60%)")
    ELSE Ret(0, "High payout ratio: {payout_pct:.1f}% (>=60%)")

\* shortPercentOfFloat in hundredths
ShortFloatMetric_score(d) ==
    LET short_percent == Get(d, "shortPercentOfFloat") IN
    IF short_percent.t # "none" THEN
        IF ~IsNum(short_percent) THEN Raise("TypeError")
        ELSE IF short_percent.v < 2
             THEN Ret(4, "Very low short interest: {short_percent*100:.2f}% (<2%)")
        ELSE IF short_percent.v < 5
             THEN Ret(2, "Low short interest: {short_percent*100:.2f}% (<5%)")
        ELSE IF short_percent.v < 10
             THEN Ret(1, "Moderate short interest: {short_percent*100:.2f}% (<10%)")
        ELSE Ret(0, "High short interest: {short_percent*100:.2f}% (>=10%)")
    ELSE Ret(0, "Short interest data not available")

\* recommendationKey: a string; `==` never raises, reco.replace does on a
\* value that is no string
AnalystRecommendationMetric_score(d) ==
    LET reco == Get(d, "recommendationKey") IN
    IF reco.t # "none" THEN
        IF reco.t = "str" /\ reco.s = "strong_buy"
             THEN Ret(5, "Analyst consensus: Strong Buy")
        ELSE IF reco.t = "str" /\ reco.s = "buy"
             THEN Ret(3, "Analyst consensus: Buy")
        ELSE IF reco.t = "str" /\ reco.s = "hold"
             THEN Ret(1, "Analyst consensus: Hold")
        ELSE IF reco.t # "str" THEN Raise("AttributeError")
        ELSE Ret(0, "Analyst consensus: {reco.replace('_', ' ').title()}")
    ELSE Ret(0, "Analyst recommendation not available")

\* heldPercentInsiders in hundredths
InsiderOwnershipMetric_score(d) ==
    LET insider_percent == Get(d, "heldPercentInsiders") IN
    IF insider_percent.t # "none" THEN
        IF ~IsNum(insider_percent) THEN Raise("TypeError")
        ELSE IF insider_percent.v > 10
             THEN Ret(5, "High insider ownership: {insider_percent * 100:.2f}% (>10%)")
        ELSE IF insider_percent.v > 3
             THEN Ret(3, "Moderate insider ownership: {insider_percent * 100:.2f}% (>3%)")
        ELSE Ret(0, "Low insider ownership: {insider_percent * 100:.2f}% (<=3%)")
    ELSE Ret(0, "Insider ownership data not available")

\* heldPercentInstitutions in hundredths
InstitutionalOwnershipMetric_score(d) ==
    LET ii_percent == Get(d, "heldPercentInstitutions") IN
    IF ii_percent.t # "none" THEN
        IF ~IsNum(ii_percent) THEN Raise("TypeError")
        ELSE IF ii_percent.v > 70
             THEN Ret(5, "High institutional ownership: {ii_percent * 100:.2f}% (>70%)")
        ELSE IF ii_percent.v > 40
             THEN Ret(3, "Moderate institutional ownership: {ii_percent * 100:.2f}% (>40%)")
        ELSE Ret(0, "Low institutional ownership: {ii_percent * 100:.2f}% (<=40%)")
    ELSE Ret(0, "Institutional ownership data not available")

\* esgScores: a nested dict; totalEsg in units
ESGScoreMetric_score(d) ==
    LET esg == Get(d, "esgScores") IN
    IF Truthy(esg) /\ esg.t = "dict" THEN
        IF esg.s \in {"nokey", "none"} THEN Ret(0, "Total ESG score not available")
        ELSE IF esg.s # "num" THEN Raise("TypeError")
        ELSE IF esg.v < 25
             THEN Ret(5, "Excellent ESG risk score: {combined_score:.1f} (<25)")
        ELSE IF esg.v < 40
             THEN Ret(3, "Good ESG risk score: {combined_score:.1f} (<40)")
        ELSE Ret(0, "High ESG risk score: {combined_score:.1f} (>=40, higher is worse)")
    ELSE Ret(0, "ESG data not available")

\* The eight Altman fields in units of 1e9.  The whole body is in a try block:
\* any exception gives the reason "Could not compute Altman Z-Score".
\* all(x > 0 for x in [total_assets, total_liabilities, sales, market_cap])
\* stops at the first value that is not positive, so a value after it is not
\* compared.  With TA > 0 and TL > 0,
\*   z = 1.2*WC/TA + 1.4*RE/TA + 3.3*EBIT/TA + 0.6*MC/TL + 1.0*S/TA > c
\* is (12*WC + 14*RE + 33*EBIT + 10*S)*TL + 6*MC*TA > 10*c*TA*TL.
AltmanZScoreMetric_score(d) ==
    LET tca == GetOr0(d, "totalCurrentAssets")
        tcl == GetOr0(d, "totalCurrentLiabilities")
        total_assets == GetOr0(d, "totalAssets")
        retained_earnings == GetOr0(d, "retainedEarnings")
        ebit == GetOr0(d, "ebit")
        market_cap == GetOr0(d, "marketCap")
        total_liabilities == GetOr0(d, "totalLiab")
        sales == GetOr0(d, "totalRevenue")
        failed == Ret(0, "Could not compute Altman Z-Score")
        insufficient == Ret(0, "Insufficient data for Altman Z-Score")
        z10 == (12 * (tca.v - tcl.v) + 14 * retained_earnings.v + 33 * ebit.v
                + 10 * sales.v) * total_liabilities.v
               + 6 * market_cap.v * total_assets.v
        den == total_assets.v * total_liabilities.v
    IN
    IF ~IsNum(tca) \/ ~IsNum(tcl) THEN failed
    ELSE IF ~IsNum(total_assets) THEN failed
    ELSE IF ~(total_assets.v > 0) THEN insufficient
    ELSE IF ~IsNum(total_liabilities) THEN failed
    ELSE IF ~(total_liabilities.v > 0) THEN insufficient
    ELSE IF ~IsNum(sales) THEN failed
    ELSE IF ~(sales.v > 0) THEN insufficient
    ELSE IF ~IsNum(market_cap) THEN failed
    ELSE IF ~(market_cap.v > 0) THEN insufficient
    ELSE IF ~IsNum(retained_earnings) \/ ~IsNum(ebit) THEN failed
    ELSE IF z10 > 30 * den THEN Ret(6, "Very safe Altman Z-Score: {z:.2f} (>3.0)")
    ELSE IF z10 > 25 * den THEN Ret(4, "Safe Altman Z-Score: {z:.2f} (>2.5)")
    ELSE IF z10 > 18 * den THEN Ret(2, "Warning Altman Z-Score: {z:.2f} (>1.8)")
    ELSE Ret(0, "Distress Altman Z-Score: {z:.2f} (<=1.8)")

\* marketCap in units of 1e9
MarketCapMetric_score(d) ==
    LET mcap == Get(d, "marketCap") IN
    IF mcap.t # "none" THEN
        IF ~IsNum(mcap) THEN Raise("TypeError")
        ELSE IF mcap.v > 100 THEN Ret(5, "Very large market cap: ${mcap/1e9:.1f}B")
        ELSE IF mcap.v > 10 THEN Ret(3, "Large market cap: ${mcap/1e9:.1f}B")
        ELSE IF mcap.v > 1 THEN Ret(1, "Mid cap: ${mcap/1e9:.1f}B")
        ELSE Ret(0, "Small cap: ${mcap/1e6:.1f}M")
    ELSE Ret(0, "Market cap data not available")

\* averageDailyVolume10Day in units of 100000
AvgVolumeMetric_score(d) ==
    LET avgvol == Get(d, "averageDailyVolume10Day") IN
    IF avgvol.t # "none" THEN
        IF ~IsNum(avgvol) THEN Raise("TypeError")
        ELSE IF avgvol.v >= 10 THEN Ret(4, "Excellent liquidity: {avgvol:,}/day")
        ELSE IF avgvol.v >= 3 THEN Ret(2, "Acceptable liquidity: {avgvol:,}/day")
        ELSE Ret(0, "Low liquidity: {avgvol:,}/day (<300k)")
    ELSE Ret(0, "Average volume data not available")

\* beta in hundredths
BetaMetric_score(d) ==
    LET beta == Get(d, "beta") IN
    IF beta.t # "none" THEN
        IF ~IsNum(beta) THEN Raise("TypeError")
        ELSE IF 0 < beta.v /\ beta.v < 100
             THEN Ret(4, "Lower-than-market volatility (beta={beta:.2f})")
        ELSE IF 100 <= beta.v /\ beta.v < 130
             THEN Ret(2, "Market-level volatility (beta={beta:.2f})")
        ELSE Ret(0, "High volatility (beta={beta:.2f})")
    ELSE Ret(0, "Beta data not available")

\* h is what yf.Ticker(symbol).history(period="1y") does: h.kind is "raise"
\* (the call or the indexing raises), "empty" (an empty frame) or "data", and
\* then h.pct is the price change over the year in percent.
PriceMomentumMetric_score(d, h) ==
    LET symbol == Get(d, "symbol") IN
    IF ~Truthy(symbol)
    THEN Ret(0, "Ticker symbol not available for price momentum metric")
    ELSE IF h.kind = "raise" THEN Ret(0, "Failed to compute 1y price momentum")
    ELSE IF h.kind = "empty" THEN Ret(0, "No 1y price history available")
    ELSE IF h.pct > 30 THEN Ret(3, "Strong 1y price momentum: {pct:.1f}% (>30%)")
    ELSE IF h.pct > 10 THEN Ret(2, "Good 1y price momentum: {pct:.1f}% (>10%)")
    ELSE IF h.pct > 0 THEN Ret(1, "Positive 1y price momentum: {pct:.1f}%")
    ELSE Ret(0, "Negative 1y price momentum: {pct:.1f}%")

-----------------------------------------------------------------------------
(* str() and int() as CompanyAgeMetric uses them *)

Digit == <<"0", "1", "2", "3", "4", "5", "6", "7", "8", "9">>

RECURSIVE NatChars(_)
\* str(n) for n >= 0
NatChars(n) ==
    IF n < 10 THEN <<Digit[n + 1]>>
    ELSE NatChars(n \div 10) \o <<Digit[(n % 10) + 1]>>

\* The characters of the strings the attribute maps of this model hold
StrChars(x) ==
    CASE x = "1990-01-01" -> <<"1", "9", "9", "0", "-", "0", "1", "-", "0", "1">>
      [] x = "1990" -> <<"1", "9", "9", "0">>
      [] x = "2021" -> <<"2", "0", "2", "1">>
      [] x = "n/a" -> <<"n", "/", "a">>
      [] x = "buy" -> <<"b", "u", "y">>
      [] x = "sell" -> <<"s", "e", "l", "l">>
      [] x = "" -> <<>>
      [] OTHER -> <<"?">>

\* str(value)
PyStr(x) ==
    CASE x.t = "num" -> IF x.v < 0 THEN <<"-">> \o NatChars(-x.v) ELSE NatChars(x.v)
      [] x.t = "str" -> StrChars(x.s)
      [] x.t = "dict" -> <<"{">>
      [] OTHER -> <<"N", "o", "n", "e">>

\* seq[:n]
Prefix(seq, n) == SubSeq(seq, 1, IF Len(seq) < n THEN Len(seq) ELSE n)

DigitValue(c) == CHOOSE i \in 0..9 : Digit[i + 1] = c

RECURSIVE DigitsValue(_)
DigitsValue(seq) ==
    IF seq = <<>> THEN 0
    ELSE 10 * DigitsValue(SubSeq(seq, 1, Len(seq) - 1)) + DigitValue(seq[Len(seq)])

IsDigits(seq) ==
    /\ seq # <<>>
    /\ \A i \in 1..Len(seq) : \E j \in 1..10 : Digit[j] = seq[i]

\* int(text) of a string: an optional sign and decimal digits, else ValueError.
\* (Surrounding blanks and underscores between digits, which int() also takes,
\* are in none of the strings here.)  ok = FALSE stands for the ValueError.
PyIntOfChars(seq) ==
    LET body == IF seq # <<>> /\ seq[1] \in {"-", "+"} THEN Tail(seq) ELSE seq
        neg == seq # <<>> /\ seq[1] = "-"
    IN
    IF IsDigits(body)
    THEN [ok |-> TRUE, n |-> IF neg THEN -DigitsValue(body) ELSE DigitsValue(body)]
    ELSE [ok |-> FALSE, n |-> 0]

\* datetime.utcnow().year
current_year == 2026

\* ipoYear in years; startDate a date string or a number
CompanyAgeMetric_score(d) ==
    LET ipo_given == Get(d, "ipoYear")
        start_date == Get(d, "startDate")
        parsed == PyIntOfChars(Prefix(PyStr(start_date), 4))
        ipo_year ==
            IF ipo_given.t # "none" THEN ipo_given
            ELSE IF Truthy(start_date) /\ parsed.ok THEN Num(parsed.n)
            ELSE None
        \* int(ipo_year)
        as_int ==
            CASE ipo_year.t = "num" -> [ok |-> TRUE, n |-> ipo_year.v]
              [] ipo_year.t = "str" -> PyIntOfChars(StrChars(ipo_year.s))
              [] OTHER -> [ok |-> FALSE, n |-> 0]
        age == current_year - as_int.n
    IN
    IF Truthy(ipo_year) THEN
        IF ~as_int.ok
        THEN Raise(IF ipo_year.t = "str" THEN "ValueError" ELSE "TypeError")
        ELSE IF age > 30 THEN Ret(3, "Mature company (age={age}y, IPO {ipo_year})")
        ELSE IF age > 10 THEN Ret(2, "Established company (age={age}y, IPO {ipo_year})")
        ELSE IF age > 3 THEN Ret(1, "Newer public company (age={age}y, IPO {ipo_year})")
        ELSE Ret(0, "Very recent IPO (age={age}y, IPO {ipo_year})")
    ELSE Ret(0, "IPO year/start date not available")

-----------------------------------------------------------------------------
(* DrovalixScorer *)

\* A metric object: its class, and the class attributes name, max_points and
\* weight (in tenths: 1.2 is 12; StockMetric.weight is 1.0)
Metric(cls, name, max_points, weight) ==
    [cls |-> cls, name |-> name, max_points |-> max_points, weight |-> weight]

\* The list __init__ builds when metrics is None
DefaultMetrics == <<
    Metric("ROEMetric", "Return on Equity", 20, 12),
    Metric("ReturnOnAssetsMetric", "Return on Assets", 3, 10),
    Metric("ROICMetric", "Return on Invested Capital", 4, 10),
    Metric("DebtToEquityMetric", "Debt to Equity", 15, 10),
    Metric("CurrentRatioMetric", "Current Ratio", 7, 10),
    Metric("QuickRatioMetric", "Quick Ratio", 6, 10),
    Metric("InterestCoverageMetric", "Interest Coverage", 3, 10),
    Metric("ProfitMarginMetric", "Profit Margin", 12, 10),
    Metric("OperatingMarginMetric", "Operating Margin", 10, 10),
    Metric("FreeCashFlowMetric", "Free Cash Flow", 10, 10),
    Metric("PriceToFreeCashFlowMetric", "P/FCF Ratio", 3, 10),
    Metric("RevenueGrowthMetric", "Revenue Growth", 10, 10),
    Metric("FiveYearRevenueGrowthMetric", "5y Revenue CAGR", 5, 10),
    Metric("EPSGrowthMetric", "EPS Growth", 8, 10),
    Metric("DividendGrowthMetric", "Dividend Growth", 4, 10),
    Metric("PERatioMetric", "P/E Ratio", 5, 10),
    Metric("PEGMetric", "PEG Ratio", 3, 10),
    Metric("PBMetric", "P/B Ratio", 5, 10),
    Metric("PriceToSalesMetric", "P/S Ratio", 4, 10),
    Metric("GrahamNumberMetric", "Graham Number", 4, 10),
    Metric("DividendMetric", "Dividend Yield", 5, 10),
    Metric("PayoutRatioMetric", "Payout Ratio", 3, 10),
    Metric("ShortFloatMetric", "Short Interest %", 4, 10),
    Metric("AnalystRecommendationMetric", "Analyst Recommendation", 5, 10),
    Metric("InsiderOwnershipMetric", "Insider Ownership", 5, 10),
    Metric("InstitutionalOwnershipMetric", "Institutional Ownership", 5, 10),
    Metric("ESGScoreMetric", "ESG Score", 5, 10),
    Metric("AltmanZScoreMetric", "Altman Z-Score", 6, 10),
    Metric("MarketCapMetric", "Market Capitalization", 5, 10),
    Metric("AvgVolumeMetric", "Avg Volume (Liquidity)", 4, 10),
    Metric("BetaMetric", "Beta (Volatility)", 4, 10),
    Metric("PriceMomentumMetric", "1y Price Momentum", 3, 10),
    Metric("CompanyAgeMetric", "Company Longevity", 3, 10)
>>

\* metric.score(info), by the class of the metric
MetricScore(metric, d, h) ==
    CASE metric.cls = "ROEMetric" -> ROEMetric_score(d)
      [] metric.cls = "ReturnOnAssetsMetric" -> ReturnOnAssetsMetric_score(d)
      [] metric.cls = "ROICMetric" -> ROICMetric_score(d)
      [] metric.cls = "DebtToEquityMetric" -> DebtToEquityMetric_score(d)
      [] metric.cls = "CurrentRatioMetric" -> CurrentRatioMetric_score(d)
      [] metric.cls = "QuickRatioMetric" -> QuickRatioMetric_score(d)
      [] metric.cls = "InterestCoverageMetric" -> InterestCoverageMetric_score(d)
      [] metric.cls = "ProfitMarginMetric" -> ProfitMarginMetric_score(d)
      [] metric.cls = "OperatingMarginMetric" -> OperatingMarginMetric_score(d)
      [] metric.cls = "FreeCashFlowMetric" -> FreeCashFlowMetric_score(d)
      [] metric.cls = "PriceToFreeCashFlowMetric" -> PriceToFreeCashFlowMetric_score(d)
      [] metric.cls = "RevenueGrowthMetric" -> RevenueGrowthMetric_score(d)
      [] metric.cls = "FiveYearRevenueGrowthMetric" -> FiveYearRevenueGrowthMetric_score(d)
      [] metric.cls = "EPSGrowthMetric" -> EPSGrowthMetric_score(d)
      [] metric.cls = "DividendGrowthMetric" -> DividendGrowthMetric_score(d)
      [] metric.cls = "PERatioMetric" -> PERatioMetric_score(d)
      [] metric.cls = "PEGMetric" -> PEGMetric_score(d)
      [] metric.cls = "PBMetric" -> PBMetric_score(d)
      [] metric.cls = "PriceToSalesMetric" -> PriceToSalesMetric_score(d)
      [] metric.cls = "GrahamNumberMetric" -> GrahamNumberMetric_score(d)
      [] metric.cls = "DividendMetric" -> DividendMetric_score(d)
      [] metric.cls = "PayoutRatioMetric" -> PayoutRatioMetric_score(d)
      [] metric.cls = "ShortFloatMetric" -> ShortFloatMetric_score(d)
      [] metric.cls = "AnalystRecommendationMetric" -> AnalystRecommendationMetric_score(d)
      [] metric.cls = "InsiderOwnershipMetric" -> InsiderOwnershipMetric_score(d)
      [] metric.cls = "InstitutionalOwnershipMetric" -> InstitutionalOwnershipMetric_score(d)
      [] metric.cls = "ESGScoreMetric" -> ESGScoreMetric_score(d)
      [] metric.cls = "AltmanZScoreMetric" -> AltmanZScoreMetric_score(d)
      [] metric.cls = "MarketCapMetric" -> MarketCapMetric_score(d)
      [] metric.cls = "AvgVolumeMetric" -> AvgVolumeMetric_score(d)
      [] metric.cls = "BetaMetric" -> BetaMetric_score(d)
      [] metric.cls = "PriceMomentumMetric" -> PriceMomentumMetric_score(d, h)
      [] metric.cls = "CompanyAgeMetric" -> CompanyAgeMetric_score(d)

\* Mutant of SumMaxPoints: the sum leaves out the first metric of the list
SumMaxPoints_tail(metrics) ==
    LET F[i \in 0..Len(metrics)] ==
            IF i <= 1 THEN 0 ELSE F[i - 1] + metrics[i].max_points
    IN F[Len(metrics)]

RECURSIVE SumMaxPoints(_)
\* sum(metric.max_points for metric in self.metrics)
SumMaxPoints(metrics) ==
    IF metrics = <<>> THEN 0
    ELSE metrics[1].max_points + SumMaxPoints(Tail(metrics))

\* self.max_score, set in __init__
max_score(metrics) == SumMaxPoints(metrics)

\* pct = (score / self.max_score) * 100 if self.max_score else 0, and
\* pct >= c is 100 * score >= c * max_score
\* Mutant of get_rating: the comparisons with the thresholds are strict
get_rating_strict(metrics, score) ==
    LET ms == max_score(metrics)
        pct_gt(c) == IF ms # 0 THEN 100 * score > c * ms ELSE 0 > c
    IN
    IF pct_gt(85) THEN "Excellent"
    ELSE IF pct_gt(70) THEN "Very Good"
    ELSE IF pct_gt(55) THEN "Good"
    ELSE IF pct_gt(40) THEN "Average"
    ELSE "Weak"

get_rating(metrics, score) ==
    LET ms == max_score(metrics)
        pct_ge(c) == IF ms # 0 THEN 100 * score >= c * ms ELSE 0 >= c
    IN
    IF pct_ge(85) THEN "Excellent"
    ELSE IF pct_ge(70) THEN "Very Good"
    ELSE IF pct_ge(55) THEN "Good"
    ELSE IF pct_ge(40) THEN "Average"
    ELSE "Weak"

\* Mutant of ErrorResult: the except branch rates the score 0 with get_rating
\* instead of the fixed rating "Error"
ErrorResult_rated(metrics, ticker, e) ==
    [symbol |-> ticker,
     error |-> Str(e),
     score |-> 0,
     max_score |-> max_score(metrics),
     rating |-> get_rating(metrics, 0),
     reasons |-> <<"Failed to retrieve or process data">>,
     metrics |-> <<>>,
     sector |-> Absent,
     industry |-> Absent,
     shortName |-> Absent]

\* The dict of the except branch (the timestamp is left out of both dicts).
\* A key the dict does not have is Absent.
ErrorResult(metrics, ticker, e) ==
    [symbol |-> ticker,
     error |-> Str(e),
     score |-> 0,
     max_score |-> max_score(metrics),
     rating |-> "Error",
     reasons |-> <<"Failed to retrieve or process data">>,
     metrics |-> <<>>,
     sector |-> Absent,
     industry |-> Absent,
     shortName |-> Absent]

RECURSIVE RunMetrics_stop(_, _, _, _, _, _, _)
\* Mutant of RunMetrics: a metric that raises ends the loop, and what the
\* metrics before it gave is kept as the outcome
RunMetrics_stop(metrics, i, d, h, total_score, reasons, metric_breakdown) ==
    IF i > Len(metrics)
    THEN [raised |-> FALSE, exc |-> "", total_score |-> total_score,
          reasons |-> reasons, metric_breakdown |-> metric_breakdown]
    ELSE LET r == MetricScore(metrics[i], d, h) IN
         IF r.raised
         THEN [raised |-> FALSE, exc |-> "", total_score |-> total_score,
               reasons |-> reasons, metric_breakdown |-> metric_breakdown]
         ELSE RunMetrics_stop(metrics, i + 1, d, h,
                              total_score + r.points,
                              reasons \o r.reasons,
                              Append(metric_breakdown,
                                     [metric |-> metrics[i].name,
                                      score |-> r.points,
                                      max |-> metrics[i].max_points,
                                      explanation |-> r.reasons]))

RECURSIVE RunMetrics_weighted(_, _, _, _, _, _, _)
\* Mutant of RunMetrics: the points a metric earned are multiplied by its
\* weight before they are added to total_score
RunMetrics_weighted(metrics, i, d, h, total_score, reasons, metric_breakdown) ==
    IF i > Len(metrics)
    THEN [raised |-> FALSE, exc |-> "", total_score |-> total_score,
          reasons |-> reasons, metric_breakdown |-> metric_breakdown]
    ELSE LET r == MetricScore(metrics[i], d, h) IN
         IF r.raised
         THEN [raised |-> TRUE, exc |-> r.exc, total_score |-> total_score,
               reasons |-> reasons, metric_breakdown |-> metric_breakdown]
         ELSE RunMetrics_weighted(metrics, i + 1, d, h,
                                  total_score + (r.points * metrics[i].weight) \div 10,
                                  reasons \o r.reasons,
                                  Append(metric_breakdown,
                                         [metric |-> metrics[i].name,
                                          score |-> r.points,
                                          max |-> metrics[i].max_points,
                                          explanation |-> r.reasons]))

RECURSIVE RunMetrics(_, _, _, _, _, _, _)
\* The for loop over self.metrics from metric i on: the accumulators
\* total_score, reasons and metric_breakdown, or the exception that ended it
RunMetrics(metrics, i, d, h, total_score, reasons, metric_breakdown) ==
    IF i > Len(metrics)
    THEN [raised |-> FALSE, exc |-> "", total_score |-> total_score,
          reasons |-> reasons, metric_breakdown |-> metric_breakdown]
    ELSE LET r == MetricScore(metrics[i], d, h) IN
         IF r.raised
         THEN [raised |-> TRUE, exc |-> r.exc, total_score |-> total_score,
               reasons |-> reasons, metric_breakdown |-> metric_breakdown]
         ELSE RunMetrics(metrics, i + 1, d, h,
                         total_score + r.points,
                         reasons \o r.reasons,
                         Append(metric_breakdown,
                                [metric |-> metrics[i].name,
                                 score |-> r.points,
                                 max |-> metrics[i].max_points,
                                 explanation |-> r.reasons]))

\* Mutant of score_stock: when a metric raises, the points and breakdown
\* entries accumulated so far are put into the error dict
score_stock_partial(metrics, ticker, given, passed, fetched, h) ==
    IF ~given /\ fetched.kind = "raise"
    THEN ErrorResult(metrics, ticker, "FetchError")
    ELSE IF ~given /\ fetched.kind = "none"
    THEN ErrorResult(metrics, ticker, "TypeError")
    ELSE
        LET d0 == IF given THEN passed ELSE fetched.d
            d == [d0 EXCEPT !["symbol"] = Str(ticker)]
            run == RunMetrics(metrics, 1, d, h, 0, <<>>, <<>>)
        IN
        IF run.raised
        THEN [ErrorResult(metrics, ticker, run.exc) EXCEPT
                 !.score = run.total_score, !.metrics = run.metric_breakdown]
        ELSE [symbol |-> ticker,
              error |-> Absent,
              score |-> run.total_score,
              max_score |-> max_score(metrics),
              rating |-> get_rating(metrics, run.total_score),
              reasons |-> run.reasons,
              metrics |-> run.metric_breakdown,
              sector |-> Get(d, "sector"),
              industry |-> Get(d, "industry"),
              shortName |-> Get(d, "shortName")]

\* score_stock(ticker, info): given tells whether the caller passed info;
\* fetched is what stock.info does when it did not: fetched.kind is "raise",
\* "none" (the provider answers None) or "dict", and then fetched.d is the map.
\* h is what the price history call of PriceMomentumMetric does.
score_stock(metrics, ticker, given, passed, fetched, h) ==
    IF ~given /\ fetched.kind = "raise"
    THEN ErrorResult(metrics, ticker, "FetchError")
    ELSE IF ~given /\ fetched.kind = "none"
    \* info['symbol'] = ticker on None
    THEN ErrorResult(metrics, ticker, "TypeError")
    ELSE
        LET d0 == IF given THEN passed ELSE fetched.d
            d == [d0 EXCEPT !["symbol"] = Str(ticker)]
            run == RunMetrics(metrics, 1, d, h, 0, <<>>, <<>>)
        IN
        IF run.raised THEN ErrorResult(metrics, ticker, run.exc)
        ELSE [symbol |-> ticker,
              error |-> Absent,
              score |-> run.total_score,
              max_score |-> max_score(metrics),
              rating |-> get_rating(metrics, run.total_score),
              reasons |-> run.reasons,
              metrics |-> run.metric_breakdown,
              sector |-> Get(d, "sector"),
              industry |-> Get(d, "industry"),
              shortName |-> Get(d, "shortName")]

-----------------------------------------------------------------------------
(* The attribute maps the checks run on *)

\* The keys the metrics and score_stock read
Fields == {
    "returnOnEquity", "returnOnAssets", "returnOnInvestedCapital",
    "debtToEquity", "currentRatio", "quickRatio", "ebit", "interestExpense",
    "profitMargins", "operatingMargins", "freeCashflow", "marketCap",
    "revenueGrowth", "fiveYearAvgRevenueGrowth", "earningsQuarterlyGrowth",
    "dividendGrowth", "trailingPE", "pegRatio", "priceToBook",
    "priceToSalesTrailing12Months", "trailingEps", "bookValue",
    "currentPrice", "dividendYield", "payoutRatio", "shortPercentOfFloat",
    "recommendationKey", "heldPercentInsiders", "heldPercentInstitutions",
    "esgScores", "totalCurrentAssets", "totalCurrentLiabilities",
    "totalAssets", "retainedEarnings", "totalLiab", "totalRevenue",
    "averageDailyVolume10Day", "beta", "symbol", "ipoYear", "startDate",
    "sector", "industry", "shortName"
}

\* "history" is no key of the map: it stands for the provider's price history
EnvKeys == Fields \cup {"history"}

Nums(seq) == [i \in 1..Len(seq) |-> Num(seq[i])]

\* The values a key takes, the best-scoring first, in the unit of the key
\* (each tier boundary and its neighbour)
Candidates(f) ==
    CASE f = "returnOnEquity" -> Nums(<<21, 20, 16, 15, 11, 10, -5>>)
      [] f = "returnOnAssets" -> Nums(<<11, 10, 6, 5, 1, 0>>)
      [] f = "returnOnInvestedCapital" -> Nums(<<16, 15, 11, 10, 1, 0>>)
      [] f = "debtToEquity" -> Nums(<<49, 50, 99, 100, 199, 200>>)
      [] f = "currentRatio" -> Nums(<<201, 200, 151, 150, 101, 100>>)
      [] f = "quickRatio" -> Nums(<<151, 150, 101, 100, 71, 70>>)
      [] f = "ebit" -> Nums(<<9, 8, 5, 4, 3, 2, -1>>)
      [] f = "interestExpense" -> Nums(<<1, -1, 2, 0>>)
      [] f = "profitMargins" -> Nums(<<21, 20, 11, 10, 6, 5>>)
      [] f = "operatingMargins" -> Nums(<<21, 20, 11, 10>>)
      [] f = "freeCashflow" -> Nums(<<20, 1, 0, -1>>)
      [] f = "marketCap" -> Nums(<<101, 100, 11, 10, 2, 1, 0>>)
      [] f = "revenueGrowth" -> Nums(<<21, 20, 11, 10, 1, 0>>)
      [] f = "fiveYearAvgRevenueGrowth" -> Nums(<<16, 15, 8, 7, 1, 0>>)
      [] f = "earningsQuarterlyGrowth" -> Nums(<<16, 15, 6, 5>>)
      [] f = "dividendGrowth" -> Nums(<<5, 4, 3, 2>>)
      [] f = "trailingPE" -> Nums(<<1499, 1500, 2499, 2500, 0>>)
      [] f = "pegRatio" -> Nums(<<99, 100, 199, 200, 0>>)
      [] f = "priceToBook" -> Nums(<<199, 200, 399, 400, -1>>)
      [] f = "priceToSalesTrailing12Months" -> Nums(<<199, 200, 399, 400, 0>>)
      [] f = "trailingEps" -> Nums(<<10, 2, 1, 0, -1>>)
      [] f = "bookValue" -> Nums(<<10, 5, 1, 0, -1>>)
      [] f = "currentPrice" -> Nums(<<14, 15, 16, 47, 48, -1>>)
      [] f = "dividendYield" -> Nums(<<4, 3, 2, 1>>)
      [] f = "payoutRatio" -> Nums(<<39, 40, 59, 60, 0>>)
      [] f = "shortPercentOfFloat" -> Nums(<<1, 2, 4, 5, 9, 10>>)
      [] f = "recommendationKey" ->
            <<Str("strong_buy"), Str("buy"), Str("hold"), Str("sell")>>
      [] f = "heldPercentInsiders" -> Nums(<<11, 10, 4, 3>>)
      [] f = "heldPercentInstitutions" -> Nums(<<71, 70, 41, 40>>)
      [] f = "esgScores" ->
            <<Dict("num", 24), Dict("num", 25), Dict("num", 39), Dict("num", 40), Dict("nokey", 0), Dict("none", 0), Dict("str", 0), Dict("empty", 0)>>
      [] f = "totalCurrentAssets" -> Nums(<<5, 1, 0>>)
      [] f = "totalCurrentLiabilities" -> Nums(<<1, 5, 0>>)
      [] f = "totalAssets" -> Nums(<<10, 1, 0, -1>>)
      [] f = "retainedEarnings" -> Nums(<<5, 0, -5>>)
      [] f = "totalLiab" -> Nums(<<5, 20, 0, -1>>)
      [] f = "totalRevenue" -> Nums(<<10, 1, 0, -1>>)
      [] f = "averageDailyVolume10Day" -> Nums(<<10, 9, 3, 2>>)
      [] f = "beta" -> Nums(<<99, 100, 129, 130, 0>>)
      [] f = "symbol" ->
            <<Str("A"), Str("")>>
      [] f = "ipoYear" -> Nums(<<1995, 1996, 2015, 2016, 2022, 2023, 0>>)
      [] f = "startDate" ->
            <<Str("1990-01-01"), Str("2021"), Str("n/a"), Num(19900101), Num(0)>>
      [] f = "sector" ->
            <<Str("Technology")>>
      [] f = "industry" ->
            <<Str("Software")>>
      [] f = "shortName" ->
            <<Str("Acme")>>
      [] f = "history" ->
            <<Num(31), Num(30), Num(11), Num(10), Num(1), Num(0), Str("empty"), Str("raise")>>

\* A value of the wrong type for the key
WrongType(f) ==
    IF f \in {"recommendationKey", "symbol", "esgScores"} THEN Num(7)
    ELSE Str("n/a")

\* Every value a key takes: its candidates, None, absent and a wrong type
\* (a key of the history is never absent or None)
Values(f) ==
    {Candidates(f)[i] : i \in 1..Len(Candidates(f))}
    \cup (IF f = "history" THEN {} ELSE {None, Absent, WrongType(f)})

\* Number of graded backgrounds: background k gives every key its k-th
\* candidate (its last one when it has fewer)
NumLevels == 3

RECURSIVE Explicit(_, _)
\* The function fn on S, written out key by key
Explicit(fn, S) ==
    IF S = {} THEN <<>>
    ELSE LET x == CHOOSE y \in S : TRUE IN
         (x :> fn[x]) @@ Explicit(fn, S \ {x})

Level(k) ==
    Explicit([f \in EnvKeys |->
                 LET c == Candidates(f) IN c[IF k < Len(c) THEN k ELSE Len(c)]],
             EnvKeys)

AllAbsent ==
    Explicit([f \in EnvKeys |-> IF f = "history" THEN Str("empty") ELSE Absent],
             EnvKeys)

AllNone ==
    Explicit([f \in EnvKeys |-> IF f = "history" THEN Str("empty") ELSE None],
             EnvKeys)

Backgrounds == {Level(k) : k \in 1..NumLevels} \cup {AllAbsent, AllNone}

\* The keys each metric's score() reads (history: the price history call)
MetricFields(cls) ==
    CASE cls = "ROEMetric" -> {"returnOnEquity"}
      [] cls = "ReturnOnAssetsMetric" -> {"returnOnAssets"}
      [] cls = "ROICMetric" -> {"returnOnInvestedCapital"}
      [] cls = "DebtToEquityMetric" -> {"debtToEquity"}
      [] cls = "CurrentRatioMetric" -> {"currentRatio"}
      [] cls = "QuickRatioMetric" -> {"quickRatio"}
      [] cls = "InterestCoverageMetric" -> {"ebit", "interestExpense"}
      [] cls = "ProfitMarginMetric" -> {"profitMargins"}
      [] cls = "OperatingMarginMetric" -> {"operatingMargins"}
      [] cls = "FreeCashFlowMetric" -> {"freeCashflow"}
      [] cls = "PriceToFreeCashFlowMetric" -> {"marketCap", "freeCashflow"}
      [] cls = "RevenueGrowthMetric" -> {"revenueGrowth"}
      [] cls = "FiveYearRevenueGrowthMetric" -> {"fiveYearAvgRevenueGrowth"}
      [] cls = "EPSGrowthMetric" -> {"earningsQuarterlyGrowth"}
      [] cls = "DividendGrowthMetric" -> {"dividendGrowth"}
      [] cls = "PERatioMetric" -> {"trailingPE"}
      [] cls = "PEGMetric" -> {"pegRatio"}
      [] cls = "PBMetric" -> {"priceToBook"}
      [] cls = "PriceToSalesMetric" -> {"priceToSalesTrailing12Months"}
      [] cls = "GrahamNumberMetric" -> {"trailingEps", "bookValue", "currentPrice"}
      [] cls = "DividendMetric" -> {"dividendYield"}
      [] cls = "PayoutRatioMetric" -> {"payoutRatio"}
      [] cls = "ShortFloatMetric" -> {"shortPercentOfFloat"}
      [] cls = "AnalystRecommendationMetric" -> {"recommendationKey"}
      [] cls = "InsiderOwnershipMetric" -> {"heldPercentInsiders"}
      [] cls = "InstitutionalOwnershipMetric" -> {"heldPercentInstitutions"}
      [] cls = "ESGScoreMetric" -> {"esgScores"}
      [] cls = "AltmanZScoreMetric" ->
            {"totalCurrentAssets", "totalCurrentLiabilities", "totalAssets",
             "retainedEarnings", "ebit", "marketCap", "totalLiab", "totalRevenue"}
      [] cls = "MarketCapMetric" -> {"marketCap"}
      [] cls = "AvgVolumeMetric" -> {"averageDailyVolume10Day"}
      [] cls = "BetaMetric" -> {"beta"}
      [] cls = "PriceMomentumMetric" -> {"symbol", "history"}
      [] cls = "CompanyAgeMetric" -> {"ipoYear", "startDate"}

\* The groups of keys one reader reads: each metric's, and score_stock's own
Readers ==
    {MetricFields(DefaultMetrics[m].cls) : m \in 1..Len(DefaultMetrics)}
    \cup {{"sector", "industry", "shortName"}}

\* How many keys of one reader are given another value than the background's
MaxOverrides == 1

RECURSIVE Overridden(_, _)
Overridden(F, n) ==
    IF n = 0 THEN Backgrounds
    ELSE LET prev == Overridden(F, n - 1) IN
         prev \cup UNION {{[e EXCEPT ![f] = v] : v \in Values(f)} :
                            e \in prev, f \in F}

\* The maps with at most n overridden keys, all of them keys of one reader
Envs(n) == UNION {Overridden(F, n) : F \in Readers}

InfoOf(e) == Explicit(e, Fields)

HistOf(e) ==
    LET x == e["history"] IN
    IF x.t = "num" THEN [kind |-> "data", pct |-> x.v]
    ELSE [kind |-> x.s, pct |-> 0]

\* A well-formed attribute map: numeric keys hold numbers, text keys strings,
\* esgScores a dict whose totalEsg is a number; any key may be absent or None
NumericFields ==
    Fields \ {"recommendationKey", "esgScores", "symbol", "startDate",
              "sector", "industry", "shortName"}

WellFormed(d) ==
    /\ \A f \in NumericFields : d[f].t \in {"num", "none", "absent"}
    /\ \A f \in {"recommendationKey", "symbol", "sector", "industry", "shortName"} :
          d[f].t \in {"str", "none", "absent"}
    /\ d["startDate"].t \in {"str", "num", "none", "absent"}
    /\ \/ d["esgScores"].t \in {"none", "absent"}
       \/ d["esgScores"].t = "dict" /\ d["esgScores"].s \in {"empty", "nokey", "none", "num"}

-----------------------------------------------------------------------------
(* One call of every metric's score() and one call of score_stock on a map *)

NoResult ==
    [symbol |-> "", error |-> Absent, score |-> 0, max_score |-> 0,
     rating |-> "(not called)", reasons |-> <<>>, metrics |-> <<>>,
     sector |-> Absent, industry |-> Absent, shortName |-> Absent]

\* The ticker of the single score_stock call
Ticker0 == "A"

BatchIdle ==
    /\ tickers = <<>>
    /\ parallel = FALSE
    /\ max_workers = 1
    /\ pc = "idle"
    /\ task = <<>>
    /\ fetches = <<>>
    /\ outcome = <<>>
    /\ results = <<>>
    /\ returned = <<>>
    /\ stall = 0

batchVars ==
    <<tickers, parallel, max_workers, pc, task, fetches, outcome, results, returned,
      stall>>

\* DrovalixScorer(): the default registry, and no get_rating call yet
ScorerDefault ==
    /\ registry = DefaultMetrics
    /\ self_max_score = max_score(DefaultMetrics)
    /\ rated = 0
    /\ rating = "(not called)"

\* main is not running
CliIdle ==
    /\ args = <<>>
    /\ file = <<>>
    /\ cli_pc = "idle"
    /\ cli_tickers = <<>>
    /\ written = <<>>

ScoreInit ==
    /\ BatchIdle
    /\ \E e \in Envs(MaxOverrides) :
          /\ info = InfoOf(e)
          /\ hist = HistOf(e)
    /\ \/ fetch = "dict"
       \/ fetch \in {"none", "raise"} /\ info = InfoOf(AllAbsent)
    /\ supplied = FALSE
    /\ mres = <<>>
    /\ result = NoResult
    /\ info_at_call = info
    /\ ScorerDefault
    /\ CliIdle

\* metric.score(info) of every metric of the default registry, on the map as is
ScoreMetrics ==
    /\ mres = <<>>
    /\ fetch = "dict"
    /\ mres' = [m \in 1..Len(DefaultMetrics) |->
                    MetricScore(DefaultMetrics[m], info, hist)]
    /\ UNCHANGED <<batchVars, scorerVars, cliVars, info, hist, supplied, fetch,
                   result, info_at_call>>

\* scorer.score_stock(Ticker0) or scorer.score_stock(Ticker0, info).
\* info['symbol'] = ticker writes into the dict the call works on, which is
\* the caller's dict when the caller passed one.
ScoreStock ==
    /\ result = NoResult
    /\ supplied' \in (IF fetch = "dict" THEN BOOLEAN ELSE {FALSE})
    /\ result' = score_stock(registry, Ticker0, supplied', info,
                             [kind |-> fetch, d |-> info], hist)
    /\ info_at_call' = info
    /\ info' = IF fetch = "dict" THEN [info EXCEPT !["symbol"] = Str(Ticker0)]
               ELSE info
    /\ UNCHANGED <<batchVars, scorerVars, cliVars, hist, fetch, mres>>

ScoreNext == ScoreMetrics \/ ScoreStock

SpecScore == ScoreInit /\ [][ScoreNext]_vars

-----------------------------------------------------------------------------
(* score_batch: one call, with the thread pool of the parallel branch *)

\* Longest tickers list, and largest max_workers
MaxTickers == 3

MaxWorkers == 2

TickerNames == {"A", "B", "C"}

RECURSIVE SeqsUpTo(_, _)
SeqsUpTo(S, n) ==
    IF n = 0 THEN {<<>>}
    ELSE LET shorter == SeqsUpTo(S, n - 1) IN
         shorter \cup {Append(q, x) : q \in shorter, x \in S}

\* What the provider holds for a ticker: C is a company with negative earnings
ProviderEnv(t) ==
    CASE t = "A" -> Level(1)
      [] t = "B" -> Level(3)
      [] OTHER -> [Level(2) EXCEPT !["trailingEps"] = Num(-1)]

\* self.score_stock(t) as a worker or the list comprehension runs it, when
\* stock.info does kind
ScoreTickerCall(t, kind) ==
    score_stock(DefaultMetrics, t, FALSE, InfoOf(ProviderEnv(t)),
                [kind |-> kind, d |-> InfoOf(ProviderEnv(t))],
                HistOf(ProviderEnv(t)))

\* The calls tabulated: score_stock reads nothing a run changes
TickerResults ==
    {<<t, kind, ScoreTickerCall(t, kind)>> : t \in TickerNames, kind \in {"dict", "raise"}}

ScoreTicker(t, kind) ==
    (CHOOSE c \in TickerResults : c[1] = t /\ c[2] = kind)[3]

\* tickers.index(x): the first position of x
Index(seq, x) == CHOOSE i \in 1..Len(seq) : seq[i] = x /\ \A j \in 1..(i - 1) : seq[j] # x

\* key=lambda r: tickers.index(r["symbol"]) if r.get("symbol") in tickers else 9999
\* (Index is 1-based, which keeps the order of the keys)
SortKey(tks, r) ==
    IF \E i \in 1..Len(tks) : tks[i] = r.symbol THEN Index(tks, r.symbol) ELSE 9999

RECURSIVE InsertByKey(_, _, _)
\* r put into the sorted list after every element whose key is not larger
InsertByKey(tks, sorted, r) ==
    IF sorted = <<>> THEN <<r>>
    ELSE IF SortKey(tks, r) < SortKey(tks, Head(sorted))
         THEN <<r>> \o sorted
         ELSE <<Head(sorted)>> \o InsertByKey(tks, Tail(sorted), r)

\* Mutant of SortedByKey: the results are returned as they were appended
SortedByKey_unsorted(tks, rs) == rs

RECURSIVE SortedByKey(_, _)
\* list.sort(key=...): a stable sort, equal keys keep their order
SortedByKey(tks, rs) ==
    IF rs = <<>> THEN <<>>
    ELSE InsertByKey(tks, SortedByKey(tks, SubSeq(rs, 1, Len(rs) - 1)), rs[Len(rs)])

Running == {i \in 1..Len(tickers) : task[i] = "running"}

UsesPool == parallel /\ Len(tickers) > 1

\* The state at the call of score_batch, but for which fetch stalls
BatchStart ==
    /\ tickers \in SeqsUpTo(TickerNames, MaxTickers)
    /\ parallel \in BOOLEAN
    /\ max_workers \in 1..MaxWorkers
    /\ pc = "call"
    /\ task = [i \in 1..Len(tickers) |-> "new"]
    /\ fetches = [i \in 1..Len(tickers) |-> "-"]
    /\ outcome = [i \in 1..Len(tickers) |-> NoResult]
    /\ results = <<>>
    /\ returned = <<>>
    /\ info = InfoOf(AllAbsent)
    /\ hist = HistOf(AllAbsent)
    /\ supplied = FALSE
    /\ fetch = "dict"
    /\ mres = <<>>
    /\ result = NoResult
    /\ info_at_call = info
    /\ ScorerDefault
    /\ CliIdle

\* Every fetch returns or raises
BatchInit == BatchStart /\ stall = 0

scoreVars == <<info, hist, supplied, fetch, mres, result, info_at_call>>

\* {executor.submit(self.score_stock, t): t for t in tickers}: one future per
\* element of tickers, queued in the order of the list
SubmitAll ==
    /\ pc = "call"
    /\ UsesPool
    /\ task' = [i \in 1..Len(tickers) |-> "queued"]
    /\ pc' = "pool"
    /\ UNCHANGED <<tickers, parallel, max_workers, fetches, outcome, results,
                   returned, scoreVars, stall, scorerVars, cliVars>>

\* Mutant of StartTask: the pool starts a thread for every queued work item
StartTask_unbounded(i) ==
    /\ pc = "pool"
    /\ task[i] = "queued"
    /\ \A j \in 1..(i - 1) : task[j] # "queued"
    /\ task' = [task EXCEPT ![i] = "running"]
    /\ UNCHANGED <<tickers, parallel, max_workers, pc, fetches, outcome, results,
                   returned, scoreVars, stall, scorerVars, cliVars>>

\* A worker thread takes the oldest queued work item; the pool has at most
\* max_workers threads
StartTask(i) ==
    /\ pc = "pool"
    /\ task[i] = "queued"
    /\ \A j \in 1..(i - 1) : task[j] # "queued"
    /\ Cardinality(Running) < max_workers
    /\ task' = [task EXCEPT ![i] = "running"]
    /\ UNCHANGED <<tickers, parallel, max_workers, pc, fetches, outcome, results,
                   returned, scoreVars, stall, scorerVars, cliVars>>

\* The worker's score_stock call returns and the future is finished
FinishTask(i) ==
    /\ pc = "pool"
    /\ task[i] = "running"
    /\ i # stall
    /\ \E kind \in {"dict", "raise"} :
          /\ fetches' = [fetches EXCEPT ![i] = kind]
          /\ outcome' = [outcome EXCEPT ![i] = ScoreTicker(tickers[i], kind)]
    /\ task' = [task EXCEPT ![i] = "done"]
    /\ UNCHANGED <<tickers, parallel, max_workers, pc, results, returned, scoreVars, stall, scorerVars, cliVars>>

\* One turn of the as_completed loop: it yields a finished future, in no order
\* that the list fixes, and the main thread appends its result
Collect(i) ==
    /\ pc = "pool"
    /\ task[i] = "done"
    /\ results' = Append(results, outcome[i])
    /\ task' = [task EXCEPT ![i] = "collected"]
    /\ UNCHANGED <<tickers, parallel, max_workers, pc, fetches, outcome, returned,
                   scoreVars, stall, scorerVars, cliVars>>

\* After the loop and the with block: results.sort(key=...); return results.
\* results keeps the order of the appends, returned is the sorted list.
SortAndReturn ==
    /\ pc = "pool"
    /\ \A i \in 1..Len(tickers) : task[i] = "collected"
    /\ returned' = SortedByKey(tickers, results)
    /\ pc' = "done"
    /\ UNCHANGED <<tickers, parallel, max_workers, task, fetches, outcome, results,
                   scoreVars, stall, scorerVars, cliVars>>

\* One element of [self.score_stock(ticker) for ticker in tickers]
SequentialScore ==
    /\ pc = "call"
    /\ ~UsesPool
    /\ Len(results) < Len(tickers)
    /\ Len(results) + 1 # stall
    /\ LET i == Len(results) + 1 IN
       \E kind \in {"dict", "raise"} :
          /\ fetches' = [fetches EXCEPT ![i] = kind]
          /\ outcome' = [outcome EXCEPT ![i] = ScoreTicker(tickers[i], kind)]
          /\ results' = Append(results, ScoreTicker(tickers[i], kind))
          /\ task' = [task EXCEPT ![i] = "collected"]
    /\ UNCHANGED <<tickers, parallel, max_workers, pc, returned, scoreVars, stall, scorerVars, cliVars>>

\* The list comprehension is returned
SequentialReturn ==
    /\ pc = "call"
    /\ ~UsesPool
    /\ Len(results) = Len(tickers)
    /\ returned' = results
    /\ pc' = "done"
    /\ UNCHANGED <<tickers, parallel, max_workers, task, fetches, outcome, results,
                   scoreVars, stall, scorerVars, cliVars>>

Next ==
    \/ SubmitAll
    \/ \E i \in 1..Len(tickers) : StartTask(i)
    \/ \E i \in 1..Len(tickers) : FinishTask(i)
    \/ \E i \in 1..Len(tickers) : Collect(i)
    \/ SortAndReturn
    \/ SequentialScore
    \/ SequentialReturn

Spec == BatchInit /\ [][Next]_vars

-----------------------------------------------------------------------------
(* Properties of score_batch, checked under Spec *)

Distinct(seq) == \A i, j \in 1..Len(seq) : i # j => seq[i] # seq[j]

\* The returned list has one element per ticker, the i-th with symbol tickers[i]
OrderKept ==
    /\ Len(returned) = Len(tickers)
    /\ \A i \in 1..Len(tickers) : returned[i].symbol = tickers[i]

\* How often x occurs in seq
Count(seq, x) == Cardinality({i \in 1..Len(seq) : seq[i] = x})

\* C1: for a list of at least two pairwise-distinct tickers, the parallel
\* branch of score_batch returns the results in the order of the list,
\* whatever the order the futures completed in and whatever max_workers is.
C1_DistinctTickersKeepOrder ==
    (pc = "done" /\ parallel /\ Len(tickers) >= 2 /\ Distinct(tickers)) => OrderKept

\* C1 witness: [C, A, B] scored in the pool, B's result appended first and C's
\* second, and the call has returned
C1_Witness ==
    /\ pc = "done"
    /\ parallel
    /\ tickers = <<"C", "A", "B">>
    /\ results[1].symbol = "B"
    /\ results[2].symbol = "C"

\* C2 (as claimed): for every list, also one that names a ticker twice, and in
\* both branches, the i-th returned result has symbol tickers[i].
C2_EveryListKeepsOrder == pc = "done" => OrderKept

\* What score_batch([t]) returns for each ticker t when its fetch succeeds
ScoredAlone ==
    Explicit([t \in TickerNames |-> ScoreTickerCall(t, "dict")], TickerNames)

\* C3: when the call has returned, there is one result per ticker; a call
\* whose fetch failed gave the error dict (rating "Error", score 0, metrics [])
\* for its ticker; a call whose fetch succeeded gave what scoring that ticker
\* alone gives, whatever the other fetches did; and the returned list holds
\* exactly the results of the calls.
C3_FetchFailureContained ==
    pc = "done" =>
        /\ Len(returned) = Len(tickers)
        /\ \A i \in 1..Len(tickers) :
              /\ fetches[i] = "raise" =>
                    /\ outcome[i].symbol = tickers[i]
                    /\ outcome[i].rating = "Error"
                    /\ outcome[i].score = 0
                    /\ outcome[i].metrics = <<>>
              /\ fetches[i] = "dict" =>
                    outcome[i] = ScoredAlone[tickers[i]]
              /\ Count(returned, outcome[i]) = Count(outcome, outcome[i])

\* C3 witness: a pool run of three tickers in which the fetch of A failed and
\* the fetch of another ticker succeeded and was scored (rating not "Error")
C3_Witness ==
    /\ pc = "done"
    /\ parallel
    /\ Len(tickers) = 3
    /\ \E i, j \in 1..3 :
          /\ tickers[i] = "A" /\ fetches[i] = "raise"
          /\ fetches[j] = "dict" /\ outcome[j].rating # "Error"

-----------------------------------------------------------------------------
(* Properties of score_stock and of the metrics, checked under SpecScore *)

NumMetrics == Len(DefaultMetrics)

\* The map the metrics see inside score_stock: info with the symbol put in
Injected(d) == [d EXCEPT !["symbol"] = Str(Ticker0)]

\* What metric m returns or raises inside score_stock
InCall(m) == MetricScore(DefaultMetrics[m], Injected(info), hist)

Missing(d, f) == d[f].t \in {"none", "absent"}

\* C4: score_stock always hands a result dict to its caller, and whenever the
\* fetch raises, the symbol cannot be put into what the fetch gave, or a
\* metric's score() raises, that dict is the error result: score 0, max_score
\* the sum of the registry's max_points, rating "Error", exactly one reason and
\* an empty breakdown, so no points of the metrics that ran before the failure.
C4_FailureGivesErrorResult ==
    result # NoResult =>
        /\ result.symbol = Ticker0
        /\ result.rating \in {"Excellent", "Very Good", "Good", "Average",
                              "Weak", "Error"}
        /\ ( \/ fetch \in {"raise", "none"}
             \/ \E m \in 1..NumMetrics : InCall(m).raised )
           => /\ result.rating = "Error"
              /\ result.score = 0
              /\ result.max_score = max_score(DefaultMetrics)
              /\ Len(result.reasons) = 1
              /\ result.metrics = <<>>

\* C4 witness: the fetch succeeded, the first metric earned points, a later
\* metric raised, and score_stock returned the error result
C4_Witness ==
    /\ result.rating = "Error"
    /\ result.score = 0
    /\ fetch = "dict"
    /\ InCall(1).points > 0
    /\ \E m \in 2..NumMetrics : InCall(m).raised

\* C5: a result of score_stock with the default registry whose rating is not
\* "Error" has 0 <= score <= max_score.
C5_SuccessScoreInRange ==
    (result # NoResult /\ result.rating # "Error") =>
        /\ 0 <= result.score
        /\ result.score <= result.max_score

\* C5 witness: a success result in which every metric earned its full points,
\* so the score is at the upper end of the range
C5_Witness ==
    /\ result # NoResult
    /\ result.rating = "Excellent"
    /\ result.score = result.max_score
    /\ Len(result.metrics) = NumMetrics

\* C6 (as claimed): on a well-formed map every metric returns, with
\* 0 <= points <= max_points and at least one reason.
C6_WellFormedInRange ==
    (mres # <<>> /\ WellFormed(info)) =>
        \A m \in 1..NumMetrics :
            /\ ~mres[m].raised
            /\ 0 <= mres[m].points
            /\ mres[m].points <= DefaultMetrics[m].max_points
            /\ Len(mres[m].reasons) >= 1

\* The reasons that say the data of a metric is not there
UnavailableReasons ==
    {"ROE data not available", "ROA data not available", "ROIC data not available",
     "Debt/Equity data not available", "Current ratio data not available",
     "Quick ratio data not available", "Insufficient data for interest coverage",
     "Profit margin data not available", "Operating margin data not available",
     "Free Cash Flow data not available", "Not enough data for P/FCF",
     "Revenue growth data not available",
     "5-year revenue growth data not available", "EPS growth data not available",
     "Dividend growth data not available",
     "P/E ratio data not available or negative",
     "PEG ratio data not available or N/A",
     "P/B ratio data not available or negative",
     "P/S ratio data not available or N/A", "Not enough data for Graham Number",
     "Dividend yield data not available",
     "Payout ratio data not available or N/A",
     "Short interest data not available", "Analyst recommendation not available",
     "Insider ownership data not available",
     "Institutional ownership data not available", "ESG data not available",
     "Total ESG score not available", "Insufficient data for Altman Z-Score",
     "Market cap data not available", "Average volume data not available",
     "Beta data not available", "No 1y price history available",
     "Ticker symbol not available for price momentum metric",
     "IPO year/start date not available"}

\* A field the metric requires is absent or None.  Company Longevity needs one
\* of its two fields; the ESG metric needs esgScores and its totalEsg.
RequiredMissing(cls, d) ==
    CASE cls = "CompanyAgeMetric" -> Missing(d, "ipoYear") /\ Missing(d, "startDate")
      [] cls = "ESGScoreMetric" ->
            \/ Missing(d, "esgScores")
            \/ d["esgScores"].t = "dict" /\ d["esgScores"].s \in {"empty", "nokey", "none"}
      [] OTHER -> \E f \in MetricFields(cls) \ {"history"} : Missing(d, f)

\* C7 (as claimed): a metric with a required field absent or None returns
\* 0 points and exactly one reason, which says the data is unavailable.
C7_MissingFieldUnavailable ==
    mres # <<>> =>
        \A m \in 1..NumMetrics :
            RequiredMissing(DefaultMetrics[m].cls, info) =>
                /\ ~mres[m].raised
                /\ mres[m].points = 0
                /\ Len(mres[m].reasons) = 1
                /\ mres[m].reasons[1] \in UnavailableReasons

\* C8 (as claimed): no metric's score() raises, whatever the values are.
C8_NoMetricRaises ==
    mres # <<>> => \A m \in 1..NumMetrics : ~mres[m].raised

AltmanFields == MetricFields("AltmanZScoreMetric")

GrahamIndex == CHOOSE m \in 1..NumMetrics : DefaultMetrics[m].cls = "GrahamNumberMetric"

AltmanIndex == CHOOSE m \in 1..NumMetrics : DefaultMetrics[m].cls = "AltmanZScoreMetric"

\* trailingEps, bookValue and currentPrice are numbers, none of them 0, and
\* trailingEps * bookValue < 0
NegativeRadicand(d) ==
    /\ \A f \in {"trailingEps", "bookValue", "currentPrice"} : IsNum(d[f]) /\ d[f].v # 0
    /\ d["trailingEps"].v * d["bookValue"].v < 0

\* The Altman fields are numbers and totalAssets or totalLiab is not positive
BadDenominator(d) ==
    /\ \A f \in AltmanFields : IsNum(d[f])
    /\ d["totalAssets"].v <= 0 \/ d["totalLiab"].v <= 0

ToleratedReasons ==
    {"Not enough data for Graham Number", "Insufficient data for Altman Z-Score",
     "Could not compute Altman Z-Score"}

Tolerated(r) ==
    /\ ~r.raised
    /\ r.points = 0
    /\ Len(r.reasons) = 1
    /\ r.reasons[1] \in ToleratedReasons

\* C9 (as claimed): with a negative radicand the Graham metric, and with a
\* totalAssets or totalLiab that is not positive the Altman metric, returns
\* 0 points and one insufficient-data reason without raising, and score_stock
\* on such a map does not return the error result because of it.
C9_InvalidNumbersTolerated ==
    /\ (mres # <<>> /\ NegativeRadicand(info)) => Tolerated(mres[GrahamIndex])
    /\ (mres # <<>> /\ BadDenominator(info)) => Tolerated(mres[AltmanIndex])
    /\ ( /\ result # NoResult
         /\ fetch = "dict"
         /\ NegativeRadicand(info) \/ BadDenominator(info)
         /\ \A m \in 1..NumMetrics \ {GrahamIndex, AltmanIndex} : ~InCall(m).raised )
       => result.rating # "Error"

\* C10 (as claimed): whatever another metric of the ticker did, the result of
\* score_stock has the breakdown entry of every metric that returned, with the
\* points that metric gave.
C10_OtherMetricsKept ==
    (result # NoResult /\ fetch = "dict") =>
        \A m \in 1..NumMetrics :
            ~InCall(m).raised =>
                \E k \in 1..Len(result.metrics) :
                    /\ result.metrics[k].metric = DefaultMetrics[m].name
                    /\ result.metrics[k].score = InCall(m).points

-----------------------------------------------------------------------------
(* DrovalixScorer(metrics) and one get_rating call on it *)

\* No score_stock or metric call is under way
ScoreIdle ==
    /\ info = InfoOf(AllAbsent)
    /\ hist = HistOf(AllAbsent)
    /\ supplied = FALSE
    /\ fetch = "dict"
    /\ mres = <<>>
    /\ result = NoResult
    /\ info_at_call = info

\* The registries a scorer is built with: the first k metrics of the default
\* list, for every k (none of them, ..., all of them)
Registries == {SubSeq(DefaultMetrics, 1, k) : k \in 0..Len(DefaultMetrics)}

\* __init__: self.metrics = metrics; self.max_score = sum of the max_points
RatingInit ==
    /\ registry \in Registries
    /\ self_max_score = max_score(registry)
    /\ rated = 0
    /\ rating = "(not called)"
    /\ BatchIdle
    /\ ScoreIdle
    /\ CliIdle

\* scorer.get_rating(score), for a score from one below 0 to one above max_score
GetRating ==
    /\ rating = "(not called)"
    /\ \E score \in (0 - 1)..(self_max_score + 1) :
          /\ rated' = score
          /\ rating' = get_rating(registry, score)
    /\ UNCHANGED <<batchVars, scoreVars, cliVars, registry, self_max_score>>

SpecRating == RatingInit /\ [][GetRating]_vars

\* pct >= c for pct = 100 * rated / self_max_score, and pct = 0 when
\* self_max_score = 0
PctAtLeast(c) ==
    IF self_max_score = 0 THEN 0 >= c ELSE 100 * rated >= c * self_max_score

\* C11: get_rating returns "Excellent" iff pct >= 85, "Very Good" iff
\* 70 <= pct < 85, "Good" iff 55 <= pct < 70, "Average" iff 40 <= pct < 55 and
\* "Weak" otherwise, where pct = 100 * score / max_score (0 when max_score is
\* 0); score 0 is "Weak" and the answer is never "Error".
C11_RatingBands ==
    rating # "(not called)" =>
        /\ rating \in {"Excellent", "Very Good", "Good", "Average", "Weak"}
        /\ rating = "Excellent" <=> PctAtLeast(85)
        /\ rating = "Very Good" <=> (PctAtLeast(70) /\ ~PctAtLeast(85))
        /\ rating = "Good" <=> (PctAtLeast(55) /\ ~PctAtLeast(70))
        /\ rating = "Average" <=> (PctAtLeast(40) /\ ~PctAtLeast(55))
        /\ rating = "Weak" <=> ~PctAtLeast(40)
        /\ rated = 0 => rating = "Weak"

\* C11 witness: a score at exactly 85% of max_score (17 of 20) rated "Excellent"
C11_Witness ==
    /\ self_max_score = 20
    /\ rated = 17
    /\ rating = "Excellent"

\* The total the specification writes out, and the sum of the max points of
\* the 33 rows of its table (the first has no term for the ESG Score row)
GoldenTotal ==
    20 + 3 + 4 + 15 + 7 + 6 + 3 + 12 + 10 + 10 + 3 + 10 + 5 + 8 + 4 + 5 + 3 + 5
    + 4 + 4 + 5 + 3 + 4 + 5 + 5 + 5 + 6 + 5 + 4 + 4 + 3 + 3

TableTotal ==
    20 + 3 + 4 + 15 + 7 + 6 + 3 + 12 + 10 + 10 + 3 + 10 + 5 + 8 + 4 + 5 + 3 + 5
    + 4 + 4 + 5 + 3 + 4 + 5 + 5 + 5 + 5 + 6 + 5 + 4 + 4 + 3 + 3

\* C12 (as claimed): the max_score of the scorer built with the default
\* registry is the total the specification writes out.
C12_MaxScoreIsGoldenTotal ==
    registry = DefaultMetrics => self_max_score = GoldenTotal

\* C12 (amended): the max_score of the scorer built with the default registry
\* is the sum of the max points of all 33 rows of the table, which is 198.
C12_MaxScoreIsTableTotal ==
    registry = DefaultMetrics => (self_max_score = TableTotal /\ TableTotal = 198)

\* C12 witness: a scorer with the 33 default metrics, built and used
C12_Witness ==
    /\ registry = DefaultMetrics
    /\ Len(registry) = 33
    /\ self_max_score = 198
    /\ rating # "(not called)"

-----------------------------------------------------------------------------
(* Tier boundaries of the metrics, checked under SpecScore *)

ROEIndex == CHOOSE m \in 1..NumMetrics : DefaultMetrics[m].cls = "ROEMetric"

DebtToEquityIndex ==
    CHOOSE m \in 1..NumMetrics : DefaultMetrics[m].cls = "DebtToEquityMetric"

\* C13: for a numeric returnOnEquity (in hundredths) ROEMetric gives 20 above
\* 0.20, 15 above 0.15, 10 above 0.10 and 0 otherwise, and for a numeric
\* debtToEquity DebtToEquityMetric gives 15 below 0.5, 10 below 1, 5 below 2
\* and 0 otherwise, so a value exactly on a boundary gets the lower tier.
C13_StrictThresholds ==
    mres # <<>> =>
        /\ IsNum(info["returnOnEquity"]) =>
              LET roe == info["returnOnEquity"].v IN
              /\ ~mres[ROEIndex].raised
              /\ mres[ROEIndex].points =
                    (IF roe > 20 THEN 20 ELSE IF roe > 15 THEN 15
                     ELSE IF roe > 10 THEN 10 ELSE 0)
        /\ IsNum(info["debtToEquity"]) =>
              LET dte == info["debtToEquity"].v IN
              /\ ~mres[DebtToEquityIndex].raised
              /\ mres[DebtToEquityIndex].points =
                    (IF dte < 50 THEN 15 ELSE IF dte < 100 THEN 10
                     ELSE IF dte < 200 THEN 5 ELSE 0)

\* C13 witness: returnOnEquity exactly 0.10 scored 0 and debtToEquity exactly
\* 0.5 scored 10, in one map
C13_Witness ==
    /\ mres # <<>>
    /\ info["returnOnEquity"] = Num(10)
    /\ mres[ROEIndex].points = 0
    /\ info["debtToEquity"] = Num(50)
    /\ mres[DebtToEquityIndex].points = 10

-----------------------------------------------------------------------------
(* The thread pool of score_batch, checked under Spec *)

\* How many elements of a list of results have symbol t
CountSymbol(rs, t) == Cardinality({k \in 1..Len(rs) : rs[k].symbol = t})

\* C14: in the parallel branch at most max_workers score_stock calls run at
\* any moment; once the futures are submitted every position of tickers has
\* its own call, none is left out and, on return, each ticker has as many
\* results as it has occurrences in the list; and score_batch returns only
\* when every call has returned and its result has been collected.
C14_BoundedPool ==
    UsesPool =>
        /\ Cardinality(Running) <= max_workers
        /\ Len(task) = Len(tickers)
        /\ pc \in {"pool", "done"} => \A i \in 1..Len(tickers) : task[i] # "new"
        /\ pc = "done" =>
              /\ \A i \in 1..Len(tickers) :
                    /\ task[i] = "collected"
                    /\ outcome[i] # NoResult
                    /\ outcome[i].symbol = tickers[i]
                    /\ CountSymbol(returned, tickers[i]) = Count(tickers, tickers[i])
              /\ Len(returned) = Len(tickers)

\* C14 witness: max_workers = 2, two calls are running and a third ticker is
\* still queued
C14_Witness ==
    /\ pc = "pool"
    /\ max_workers = 2
    /\ Len(tickers) = 3
    /\ Cardinality(Running) = 2
    /\ \E i \in 1..Len(tickers) : task[i] = "queued"

-----------------------------------------------------------------------------
(* score_batch when a fetch may hang: the call of tickers[stall] never     *)
(* returns (stall = 0: every fetch returns).  The worker threads and the   *)
(* main thread keep running, so a step that can be taken is taken.         *)

StallInit == BatchStart /\ stall \in 0..Len(tickers)

SpecStall == StallInit /\ [][Next]_vars /\ WF_vars(Next)

\* C15 (as claimed): whichever fetch hangs, whatever max_workers is and in
\* both branches, the score_stock call of every other ticker eventually
\* returns.
C15_OthersComplete ==
    <>(\A i \in 1..Len(tickers) : i # stall => outcome[i] # NoResult)

-----------------------------------------------------------------------------
(* What a score_stock call changes, checked under SpecScore *)

\* C16 (as claimed): after score_stock(ticker, info) the caller's map has the
\* keys and values it had at the call, and the scorer's metric list and
\* max_score are the ones it was built with.
C16_NoSideEffect ==
    /\ (result # NoResult /\ supplied) => info = info_at_call
    /\ registry = DefaultMetrics
    /\ self_max_score = max_score(DefaultMetrics)

-----------------------------------------------------------------------------
(* score_stock on scorers built with the default metrics in another order *)

Reversed(seq) == [i \in 1..Len(seq) |-> seq[Len(seq) + 1 - i]]

\* seq with the elements at i and j exchanged
Swapped(seq, i, j) == [seq EXCEPT ![i] = seq[j], ![j] = seq[i]]

\* Other orders of the default metrics: reversed, and with the first metric
\* and the Graham Number exchanged
PermRegistries ==
    {Reversed(DefaultMetrics), Swapped(DefaultMetrics, 1, GrahamIndex)}

PermInit ==
    /\ registry \in PermRegistries
    /\ self_max_score = max_score(registry)
    /\ rated = 0
    /\ rating = "(not called)"
    /\ \E e \in Envs(MaxOverrides) :
          /\ info = InfoOf(e)
          /\ hist = HistOf(e)
    /\ fetch = "dict"
    /\ supplied = FALSE
    /\ mres = <<>>
    /\ result = NoResult
    /\ info_at_call = info
    /\ BatchIdle
    /\ CliIdle

SpecPerm == PermInit /\ [][ScoreStock]_vars

\* What the scorer with the metrics in registration order returns for the call
InRegistrationOrder ==
    score_stock(DefaultMetrics, Ticker0, supplied, info_at_call,
                [kind |-> fetch, d |-> info_at_call], hist)

\* The elements of a sequence, as a set
Range(seq) == {seq[i] : i \in 1..Len(seq)}

\* C17: score_stock on a scorer whose metrics are the default ones in any
\* order returns the score, max_score and rating the registration order
\* gives, with the same reasons and the same breakdown entries in some order.
C17_OrderIndependent ==
    result # NoResult =>
        LET base == InRegistrationOrder IN
        /\ result.score = base.score
        /\ result.max_score = base.max_score
        /\ result.rating = base.rating
        /\ Range(result.metrics) = Range(base.metrics)
        /\ Range(result.reasons) = Range(base.reasons)

\* C17 witness: a scorer with the metrics reversed returned a success result
\* with a positive score and its breakdown in the reversed order
C17_Witness ==
    /\ registry = Reversed(DefaultMetrics)
    /\ result # NoResult
    /\ result.rating # "Error"
    /\ result.score > 0
    /\ result.metrics[1].metric = DefaultMetrics[NumMetrics].name

-----------------------------------------------------------------------------
(* main(): the tickers list.  A string is the sequence of its characters.  *)

\* str.upper() of one character, and of a string
UpperChar(c) == CASE c = "a" -> "A" [] c = "b" -> "B" [] OTHER -> c

Upper(str) == [i \in 1..Len(str) |-> UpperChar(str[i])]

RECURSIVE LStrip(_)
LStrip(str) ==
    IF str # <<>> /\ Head(str) = " " THEN LStrip(Tail(str)) ELSE str

RECURSIVE RStrip(_)
RStrip(str) ==
    IF str # <<>> /\ str[Len(str)] = " "
    THEN RStrip(SubSeq(str, 1, Len(str) - 1)) ELSE str

\* str.strip()
Strip(str) == RStrip(LStrip(str))

RECURSIVE SplitComma(_)
\* str.split(','): the pieces between the commas, empty ones included
SplitComma(str) ==
    IF \A i \in 1..Len(str) : str[i] # ","
    THEN <<str>>
    ELSE LET k == CHOOSE i \in 1..Len(str) :
                      str[i] = "," /\ \A j \in 1..(i - 1) : str[j] # ","
         IN <<SubSeq(str, 1, k - 1)>> \o SplitComma(SubSeq(str, k + 1, Len(str)))

RECURSIVE load_tickers_from_file(_)
\* The list load_tickers_from_file returns for a file of these rows: the
\* stripped first cell of every row that has cells
load_tickers_from_file(rows) ==
    IF rows = <<>> THEN <<>>
    ELSE (IF Head(rows) # <<>> THEN <<Strip(Head(rows)[1])>> ELSE <<>>)
         \o load_tickers_from_file(Tail(rows))

\* What the call gives for the file: [] when open() raises
LoadFile(f) == IF f.readable THEN load_tickers_from_file(f.rows) ELSE <<>>

RECURSIVE StrippedPieces(_)
\* [tk.strip() for tk in t.split(',') if tk.strip()], for a list of pieces
StrippedPieces(pieces) ==
    IF pieces = <<>> THEN <<>>
    ELSE (IF Strip(Head(pieces)) # <<>> THEN <<Strip(Head(pieces))>> ELSE <<>>)
         \o StrippedPieces(Tail(pieces))

RECURSIVE ExtendWith(_, _)
\* for t in args.tickers: tickers.extend(...)
ExtendWith(list, argv) ==
    IF argv = <<>> THEN list
    ELSE ExtendWith(list \o StrippedPieces(SplitComma(Head(argv))), Tail(argv))

RECURSIVE UpperNonEmpty(_)
\* [t.upper() for t in tickers if t]
UpperNonEmpty(list) ==
    IF list = <<>> THEN <<>>
    ELSE (IF Head(list) # <<>> THEN <<Upper(Head(list))>> ELSE <<>>)
         \o UpperNonEmpty(Tail(list))

RECURSIVE DictFromKeys(_)
\* list(dict.fromkeys(list)): every element once, at its first position
DictFromKeys(list) ==
    IF list = <<>> THEN <<>>
    ELSE LET front == DictFromKeys(SubSeq(list, 1, Len(list) - 1))
             x == list[Len(list)]
         IN IF \E i \in 1..Len(front) : front[i] = x THEN front
            ELSE Append(front, x)

\* Mutant of NormaliseTickers: duplicates are removed before upper-casing
NormaliseTickers_late(list) == UpperNonEmpty(DictFromKeys(list))

\* tickers = list(dict.fromkeys([t.upper() for t in tickers if t]))
NormaliseTickers(list) == DictFromKeys(UpperNonEmpty(list))

DefaultTicker == <<"I", "N", "F", "Y", ".", "N", "S">>

\* Mutant of WithDefault: the default is used when no ticker is on the
\* command line, whatever the file gave
WithDefault_inline(list, argv) == IF argv = <<>> THEN <<DefaultTicker>> ELSE list

\* if not tickers: tickers = ["INFY.NS"]
WithDefault(list, argv) == IF list = <<>> THEN <<DefaultTicker>> ELSE list

\* Longest ticker file (rows) and longest list of TICKER arguments
MaxFileRows == 2

MaxArgs == 2

\* Rows of a ticker file as csv.reader gives them: a blank line, a cell of
\* one space, "a", "A " , "b" followed by a second cell, "ba"
FileRowChoices ==
    { <<>>, << <<" ">> >>, << <<"a">> >>, << <<"A", " ">> >>,
      << <<"b">>, <<"a">> >>, << <<"b", "a">> >> }

\* TICKER arguments: "a", "A", "B", "b,a", " ,", ""
ArgChoices ==
    { <<"a">>, <<"A">>, <<"B">>, <<"b", ",", "a">>, <<" ", ",">>, <<>> }

\* The command line of a run that scores tickers and prints the result
ScoringArgs(file_given, argv) ==
    [file_given |-> file_given, tickers |-> argv, parallel |-> FALSE,
     max_workers |-> 6, csv |-> FALSE, json |-> FALSE, markdown |-> FALSE,
     metrics |-> FALSE, output |-> ""]

TickersInit ==
    /\ \E argv \in SeqsUpTo(ArgChoices, MaxArgs) :
          \/ /\ args = ScoringArgs(FALSE, argv)
             /\ file = [readable |-> FALSE, rows |-> <<>>]
          \/ /\ args = ScoringArgs(TRUE, argv)
             /\ \/ file = [readable |-> FALSE, rows |-> <<>>]
                \/ \E rows \in SeqsUpTo(FileRowChoices, MaxFileRows) :
                      file = [readable |-> TRUE, rows |-> rows]
    /\ cli_pc = "start"
    /\ cli_tickers = <<>>
    /\ written = <<>>
    /\ BatchIdle
    /\ ScoreIdle
    /\ ScorerDefault

\* if args.file: tickers = load_tickers_from_file(args.file)
MainLoadFile ==
    /\ cli_pc = "start"
    /\ cli_tickers' = IF args.file_given THEN LoadFile(file) ELSE <<>>
    /\ cli_pc' = "loaded"
    /\ UNCHANGED <<batchVars, scoreVars, scorerVars, args, file, written>>

\* if args.tickers: the loop that extends tickers
MainExtend ==
    /\ cli_pc = "loaded"
    /\ cli_tickers' = ExtendWith(cli_tickers, args.tickers)
    /\ cli_pc' = "extended"
    /\ UNCHANGED <<batchVars, scoreVars, scorerVars, args, file, written>>

MainNormalise ==
    /\ cli_pc = "extended"
    /\ cli_tickers' = NormaliseTickers(cli_tickers)
    /\ cli_pc' = "normalised"
    /\ UNCHANGED <<batchVars, scoreVars, scorerVars, args, file, written>>

MainDefault ==
    /\ cli_pc = "normalised"
    /\ cli_tickers' = WithDefault(cli_tickers, args.tickers)
    /\ cli_pc' = "ready"
    /\ UNCHANGED <<batchVars, scoreVars, scorerVars, args, file, written>>

\* use_parallel = args.parallel or (len(tickers) > 2), and the call
\* scorer.score_batch(tickers, parallel=use_parallel, max_workers=...)
MainCallBatch ==
    /\ cli_pc = "ready"
    /\ tickers' = cli_tickers
    /\ parallel' = (args.parallel \/ Len(cli_tickers) > 2)
    /\ max_workers' = args.max_workers
    /\ pc' = "call"
    /\ cli_pc' = "scoring"
    /\ UNCHANGED <<task, fetches, outcome, results, returned, stall, scoreVars,
                   scorerVars, args, file, cli_tickers, written>>

TickersNext ==
    \/ MainLoadFile
    \/ MainExtend
    \/ MainNormalise
    \/ MainDefault
    \/ MainCallBatch

SpecTickers == TickersInit /\ [][TickersNext]_vars

-----------------------------------------------------------------------------
(* Properties of main's tickers list, checked under SpecTickers *)

\* The tickers the user supplied, in the order main reads them: the first
\* cells of the file's rows, then the comma-separated pieces of the arguments
Supplied ==
    ExtendWith(IF args.file_given THEN LoadFile(file) ELSE <<>>, args.tickers)

\* The position of the first supplied ticker that x is the upper case of
FirstSupplied(x) ==
    CHOOSE k \in 1..Len(Supplied) :
        /\ Upper(Supplied[k]) = x
        /\ \A j \in 1..(k - 1) : Upper(Supplied[j]) # x

\* C18: after the normalisation the list has no empty string and no entry
\* twice, every entry is in upper case, its entries are the upper-cased
\* non-empty supplied tickers (so two that differ in case are one entry), and
\* they stand in the order of their first occurrence, the file's first.
C18_NormalisedTickers ==
    cli_pc = "normalised" =>
        /\ \A i \in 1..Len(cli_tickers) :
              /\ cli_tickers[i] # <<>>
              /\ Upper(cli_tickers[i]) = cli_tickers[i]
        /\ Distinct(cli_tickers)
        /\ Range(cli_tickers) =
              {Upper(Supplied[k]) : k \in {j \in 1..Len(Supplied) : Supplied[j] # <<>>}}
        /\ \A i, j \in 1..Len(cli_tickers) :
              i < j => FirstSupplied(cli_tickers[i]) < FirstSupplied(cli_tickers[j])

\* C18 witness: the file gives "a", the arguments give "A" and "b,a", and the
\* list is ["A", "B"]
C18_Witness ==
    /\ cli_pc = "normalised"
    /\ args.file_given
    /\ file.readable
    /\ Supplied = << <<"a">>, <<"A">>, <<"b">>, <<"a">> >>
    /\ cli_tickers = << <<"A">>, <<"B">> >>

\* No source supplied a ticker that is not empty
NoneSupplied == \A k \in 1..Len(Supplied) : Supplied[k] = <<>>

\* C19: when the file (unreadable, or with blank entries only) and the
\* arguments supply no ticker, main's list is the default ticker alone and
\* score_batch is called with it; when a ticker is supplied the default is
\* not in the list, which holds the supplied tickers only.
C19_DefaultTickerFallback ==
    cli_pc \in {"ready", "scoring"} =>
        /\ NoneSupplied => cli_tickers = <<DefaultTicker>>
        /\ ~NoneSupplied =>
              /\ cli_tickers # <<>>
              /\ \A i \in 1..Len(cli_tickers) :
                    /\ cli_tickers[i] # DefaultTicker
                    /\ \E k \in 1..Len(Supplied) : Upper(Supplied[k]) = cli_tickers[i]
        /\ cli_pc = "scoring" => (pc = "call" /\ tickers = cli_tickers)

\* C19 witness: a ticker file that cannot be opened and no TICKER argument:
\* score_batch is called with the default ticker alone
C19_Witness ==
    /\ cli_pc = "scoring"
    /\ args.file_given
    /\ ~file.readable
    /\ args.tickers = <<>>
    /\ tickers = <<DefaultTicker>>

-----------------------------------------------------------------------------
(* main(): where and in which format the results go *)

\* str.endswith(suffix)
EndsWith(str, suffix) ==
    /\ Len(str) >= Len(suffix)
    /\ SubSeq(str, Len(str) - Len(suffix) + 1, Len(str)) = suffix

DotCsv == <<".", "c", "s", "v">>

DotMd == <<".", "m", "d">>

\* The format save_results writes output_file in
save_results(output_file, as_csv, as_md) ==
    IF as_csv \/ EndsWith(output_file, DotCsv) THEN "csv"
    ELSE IF as_md \/ EndsWith(output_file, DotMd) THEN "md"
    ELSE "json"

\* The format print_results prints in
print_results(as_csv, as_md) ==
    IF as_csv THEN "csv" ELSE IF as_md THEN "md" ELSE "json"

\* args.output: not given (the empty string), o.csv, o.md, o.json, o.txt, csv
OutputChoices ==
    { <<>>, <<"o">> \o DotCsv, <<"o">> \o DotMd,
      <<"o", ".", "j", "s", "o", "n">>, <<"o", ".", "t", "x", "t">>,
      <<"c", "s", "v">> }

\* The fieldnames of the CSV save_results writes
save_results_keys(show_metrics) ==
    <<"symbol", "score", "max_score", "rating", "reasons", "sector", "industry",
      "shortName">> \o (IF show_metrics THEN <<"metrics">> ELSE <<>>)

\* The fieldnames of the CSV print_results writes
print_results_keys(show_metrics) ==
    <<"symbol", "score", "max_score", "rating", "sector", "industry", "shortName",
      "reasons">> \o (IF show_metrics THEN <<"metrics">> ELSE <<>>)

\* One cell of a CSV row: res.get(k, ""), the reasons joined with "; " and,
\* for the metrics column, one "name=score/max" item per breakdown entry.
\* A joined cell is the list of its items.
CsvCell(res, k) ==
    IF k = "metrics"
    THEN [m \in 1..Len(res.metrics) |->
             <<res.metrics[m].metric, "=", res.metrics[m].score, "/",
               res.metrics[m].max>>]
    ELSE res[k]

\* What csv.DictWriter writes: the header and one row per result, the cells
\* in the order of the fieldnames
CsvContent(rs, keys) ==
    [header |-> keys,
     separator |-> <<>>,
     rows |-> [i \in 1..Len(rs) |->
                  [c \in 1..Len(keys) |-> CsvCell(rs[i], keys[c])]]]

\* cols of results_md_table
md_cols(rs, show_metrics) ==
    <<"Symbol", "Score", "Max", "Rating", "Sector", "Industry", "ShortName">>
    \o (IF show_metrics
        THEN [m \in 1..Len(rs[1].metrics) |-> rs[1].metrics[m].metric]
        ELSE <<>>)

\* base of results_md_table for one result: the cells of its row
md_row(res, show_metrics) ==
    <<res.symbol, res.score, res.max_score, res.rating, res.sector, res.industry,
      res.shortName>>
    \o (IF show_metrics /\ res.metrics # <<>>
        THEN [m \in 1..Len(res.metrics) |->
                 <<res.metrics[m].score, "/", res.metrics[m].max>>]
        ELSE <<>>)

\* results_md_table(results, show_metrics) for a list that is not empty: the
\* header line, the line of dashes, and the rows
results_md_table(rs, show_metrics) ==
    [header |-> md_cols(rs, show_metrics),
     separator |-> [c \in 1..Len(md_cols(rs, show_metrics)) |-> "---"],
     rows |-> [i \in 1..Len(rs) |-> md_row(rs[i], show_metrics)]]

\* json.dump(results): the list itself
JsonContent(rs) ==
    [header |-> <<>>, separator |-> <<>>, rows |-> [i \in 1..Len(rs) |-> <<rs[i]>>]]

\* What is written in a format, with the fieldnames a CSV is given
Content(format, rs, show_metrics, keys) ==
    IF format = "csv" THEN CsvContent(rs, keys)
    ELSE IF format = "md" THEN results_md_table(rs, show_metrics)
    ELSE JsonContent(rs)

\* Longest list of results main has to write
MaxResults == 2

\* main after score_batch returned the results of its tickers: main passes
\* a list of distinct tickers that is not empty
OutputInit ==
    /\ \E ts \in SeqsUpTo(TickerNames, MaxResults) \ {<<>>} :
          /\ Distinct(ts)
          /\ tickers = ts
          /\ cli_tickers = [i \in 1..Len(ts) |-> <<ts[i]>>]
          /\ task = [i \in 1..Len(ts) |-> "collected"]
          /\ fetches \in [1..Len(ts) -> {"dict", "raise"}]
          /\ outcome = [i \in 1..Len(ts) |-> ScoreTicker(ts[i], fetches[i])]
          /\ results = outcome
          /\ returned = outcome
          /\ \E c, j, m, sm \in BOOLEAN, o \in OutputChoices :
                args = [file_given |-> FALSE, tickers |-> cli_tickers,
                        parallel |-> FALSE, max_workers |-> 6, csv |-> c,
                        json |-> j, markdown |-> m, metrics |-> sm, output |-> o]
    /\ file = [readable |-> FALSE, rows |-> <<>>]
    /\ cli_pc = "scored"
    /\ written = <<>>
    /\ parallel = FALSE
    /\ max_workers = 6
    /\ pc = "done"
    /\ stall = 0
    /\ ScoreIdle
    /\ ScorerDefault

\* if args.output: the two flags main computes, and save_results
MainSave ==
    /\ cli_pc = "scored"
    /\ args.output # <<>>
    /\ LET save_as_csv == args.csv \/ (EndsWith(args.output, DotCsv) /\ ~args.json)
           save_as_md == args.markdown \/ EndsWith(args.output, DotMd)
           format == save_results(args.output, save_as_csv, save_as_md)
       IN written' = [to |-> "file", path |-> args.output, format |-> format,
                      content |-> Content(format, returned, args.metrics,
                                          save_results_keys(args.metrics))]
    /\ cli_pc' = "end"
    /\ UNCHANGED <<batchVars, scoreVars, scorerVars, args, file, cli_tickers>>

\* else: print_results(results, as_csv=args.csv, as_md=args.markdown, ...)
MainPrint ==
    /\ cli_pc = "scored"
    /\ args.output = <<>>
    /\ LET format == print_results(args.csv, args.markdown)
       IN written' = [to |-> "stdout", path |-> <<>>, format |-> format,
                      content |-> Content(format, returned, args.metrics,
                                          print_results_keys(args.metrics))]
    /\ cli_pc' = "end"
    /\ UNCHANGED <<batchVars, scoreVars, scorerVars, args, file, cli_tickers>>

OutputNext == MainSave \/ MainPrint

SpecOutput == OutputInit /\ [][OutputNext]_vars

\* The format the one format flag given asks for
ForcedFormat ==
    IF args.json THEN "json" ELSE IF args.csv THEN "csv" ELSE "md"

OneFormatFlag ==
    Cardinality({x \in {"json", "csv", "md"} :
                    \/ x = "json" /\ args.json
                    \/ x = "csv" /\ args.csv
                    \/ x = "md" /\ args.markdown}) = 1

\* C20 (as claimed): a results file written with exactly one of --json, --csv
\* and --md given is in that flag's format whatever the path ends with, and
\* with none of them it is in the format of the extension (.csv, .md, and
\* JSON for any other).
C20_FlagBeatsExtension ==
    (cli_pc = "end" /\ written.to = "file") =>
        /\ OneFormatFlag => written.format = ForcedFormat
        /\ (~args.json /\ ~args.csv /\ ~args.markdown) =>
              written.format =
                  (IF EndsWith(args.output, DotCsv) THEN "csv"
                   ELSE IF EndsWith(args.output, DotMd) THEN "md" ELSE "json")

-----------------------------------------------------------------------------
(* Properties of what main writes, checked under SpecOutput *)

\* C21 (as claimed): a CSV, written to a file or to stdout, has one row per
\* result and the columns symbol, score, max_score, rating, reasons, sector,
\* industry, shortName, then metrics when the breakdown is asked for, in that
\* order.
C21_CsvColumns ==
    (cli_pc = "end" /\ written.format = "csv") =>
        /\ Len(written.content.rows) = Len(returned)
        /\ written.content.header =
              <<"symbol", "score", "max_score", "rating", "reasons", "sector",
                "industry", "shortName">>
              \o (IF args.metrics THEN <<"metrics">> ELSE <<>>)
        /\ \A i \in 1..Len(returned) :
              Len(written.content.rows[i]) = Len(written.content.header)

\* C23 (as claimed): a Markdown table of a list of results that is not empty
\* has a header row, a separator row and one row per result in the order of
\* the list, and every row has as many cells as the header, also when the
\* breakdown is asked for and the list mixes success and error results.
C23_MdRowsMatchHeader ==
    (cli_pc = "end" /\ written.format = "md") =>
        /\ Len(written.content.header) >= 7
        /\ Len(written.content.separator) = Len(written.content.header)
        /\ Len(written.content.rows) = Len(returned)
        /\ \A i \in 1..Len(returned) :
              /\ written.content.rows[i][1] = returned[i].symbol
              /\ Len(written.content.rows[i]) = Len(written.content.header)

-----------------------------------------------------------------------------
(* The breakdown of a success result, checked under SpecScore *)

RECURSIVE SumOfScores(_, _)
\* The plain sum of the scores of the first n breakdown entries
SumOfScores(entries, n) ==
    IF n = 0 THEN 0
    ELSE SumOfScores(entries, n - 1) + entries[n].score

RECURSIVE Explanations(_, _)
\* The explanations of the first n breakdown entries, one after the other
Explanations(entries, n) ==
    IF n = 0 THEN <<>>
    ELSE Explanations(entries, n - 1) \o entries[n].explanation

\* The registry with other weights, a different one for every metric
Reweighted(reg) == [i \in 1..Len(reg) |-> [reg[i] EXCEPT !.weight = 5 * i]]

\* C22: in a success result of score_stock the breakdown has one entry per
\* registered metric in registration order, each entry's max is that metric's
\* max_points, the score is the plain sum of the entries' scores and is the
\* same under any other weights, and reasons is the entries' explanations
\* one after the other, so at least one reason per metric.
C22_BreakdownSumsToScore ==
    (result # NoResult /\ result.rating # "Error") =>
        /\ Len(result.metrics) = Len(registry)
        /\ \A m \in 1..Len(registry) :
              /\ result.metrics[m].metric = registry[m].name
              /\ result.metrics[m].max = registry[m].max_points
        /\ result.score = SumOfScores(result.metrics, Len(result.metrics))
        /\ result.reasons = Explanations(result.metrics, Len(result.metrics))
        /\ Len(result.reasons) >= Len(registry)
        /\ score_stock(Reweighted(registry), Ticker0, supplied, info_at_call,
                       [kind |-> fetch, d |-> info_at_call], hist).score
              = result.score

\* C22 witness: a success result in which the metric of weight 1.2 earned its
\* 20 points and another metric earned none
C22_Witness ==
    /\ result # NoResult
    /\ result.rating # "Error"
    /\ Len(result.metrics) = NumMetrics
    /\ registry[ROEIndex].weight # 10
    /\ result.metrics[ROEIndex].score = 20
    /\ \E m \in 1..NumMetrics : result.metrics[m].score = 0
    /\ result.score > 20

=============================================================================
